---- MODULE Spec2Model ----
(***************************************************************************)
(* A model of the streaming CAR range filter of nginx-car-range:           *)
(* Framed::next (the frame parser and inclusion policy) and                *)
(* CarBufferContext::buffer (the chain builder), src/src/car_reader.rs.    *)
(* The input is a CAR byte stream, fed in chunks; bytes are numbers        *)
(* 0..255 and the parser is translated byte for byte.                      *)
(***************************************************************************)
EXTENDS Integers, Sequences, FiniteSets, TLC

(* ------------------------------------------------------------------ *)
(* Bounds of the model                                                 *)
(* ------------------------------------------------------------------ *)

\* chunk boundaries kept at each edge of an opaque byte region
EdgeCuts == 1
\* a run feeds the stream in chunks of 1..MaxSpan chunk boundaries each, or
\* in a single chunk
MaxSpan == 3
\* links of one input chain handed to buffer
MaxLinks == 2
\* the chunks handed in are counted up to MaxFed
MaxFed == 3
\* bytes that follow a length prefix in the input of decode_len
MaxTrail == 2

(* ------------------------------------------------------------------ *)
(* Program constants                                                   *)
(* ------------------------------------------------------------------ *)

\* "we assume that a unixfs chunk won't be smaller than 1kb"
SmallBlock == 1000
\* decode_cid pushes the chunk into the scratch buffer 36 bytes at a time
CidBatch == 36
\* MSB of a varint byte
MSB == 128
\* multicodec tags
RawCodec == 85
DagPbCodec == 112
\* a codec Framed::next has no arm for (dag-cbor)
DagCborCodec == 113
\* Framed::new: buf: Vec::with_capacity(72)
ScratchCap == 72

Min(a, b) == IF a < b THEN a ELSE b
Max(a, b) == IF a > b THEN a ELSE b

(* ------------------------------------------------------------------ *)
(* Bounds of a range (std::ops::Bound) and the range tests             *)
(* ------------------------------------------------------------------ *)

Unbounded == [k |-> "U", v |-> 0]
Included(x) == [k |-> "I", v |-> x]
Excluded(x) == [k |-> "E", v |-> x]

\* RangeBounds::contains
Contains(r, x) ==
    /\ CASE r.lo.k = "I" -> r.lo.v <= x
         [] r.lo.k = "E" -> r.lo.v < x
         [] OTHER -> TRUE
    /\ CASE r.hi.k = "I" -> x <= r.hi.v
         [] r.hi.k = "E" -> x < r.hi.v
         [] OTHER -> TRUE

lt_bound(bound, val) ==
    CASE bound.k = "I" -> bound.v >= val
      [] bound.k = "E" -> bound.v > val
      [] OTHER -> FALSE

\* a test that takes no offset to be past a bound
NoBound(bound, val) == FALSE

gt_bound(bound, val) ==
    CASE bound.k = "I" -> bound.v <= val
      [] bound.k = "E" -> bound.v < val
      [] OTHER -> FALSE

\* ranges_overlap(range1, s2..e2); u64::MAX is above every offset of the model
ranges_overlap(r, s2, e2) ==
    LET start1 == CASE r.lo.k = "I" -> r.lo.v
                    [] r.lo.k = "E" -> r.lo.v + 1
                    [] OTHER -> 0
        end1ok == CASE r.hi.k = "I" -> s2 < r.hi.v + 1
                    [] r.hi.k = "E" -> s2 < r.hi.v
                    [] OTHER -> TRUE
    IN  start1 < e2 /\ end1ok

(* ------------------------------------------------------------------ *)
(* Varints (src/src/varint.rs)                                         *)
(* ------------------------------------------------------------------ *)

\* decode_var gives up after 10 bytes (shift > 9 * 7)
VarintMax == 10

RECURSIVE Pow2(_)
Pow2(n) == IF n = 0 THEN 1 ELSE 2 * Pow2(n - 1)

\* u64::encode_var
RECURSIVE encode_var(_)
encode_var(n) ==
    IF n >= MSB THEN <<MSB + (n % MSB)>> \o encode_var(n \div MSB)
    ELSE <<n>>

\* index of the byte at which u64::decode_var stops scanning src from
\* index i (shift = 7 * bytes already scanned), 0 when src runs out first
RECURSIVE VarStop(_, _, _)
VarStop(src, i, shift) ==
    IF i > Len(src) THEN 0
    ELSE IF src[i] < MSB \/ shift + 7 > 63 THEN i
    ELSE VarStop(src, i + 1, shift + 7)

RECURSIVE VarValue(_, _)
VarValue(src, n) ==
    IF n = 0 THEN 0
    ELSE (src[n] % MSB) * Pow2(7 * (n - 1)) + VarValue(src, n - 1)

\* u64::decode_var: [ok, size, read]
decode_var(src) ==
    LET stop == VarStop(src, 1, 0)
    IN  IF stop = 0 \/ src[stop] >= MSB
        THEN [ok |-> FALSE, size |-> 0, read |-> 0]
        ELSE [ok |-> TRUE, size |-> VarValue(src, stop), read |-> stop]

(* ------------------------------------------------------------------ *)
(* CAR streams fed to the filter.  A stream is a list of frames, a     *)
(* frame a list of pieces; a piece is a run of bytes, marked opaque    *)
(* when the parser only counts its bytes (header CBOR, digests, link   *)
(* bodies, file data).                                                 *)
(* ------------------------------------------------------------------ *)

Str(bytes) == [bytes |-> bytes, opaque |-> FALSE]
Opq(bytes) == [bytes |-> bytes, opaque |-> TRUE]
Fill(seed, n) == [i \in 1..n |-> (seed + 7 * i) % 256]

RECURSIVE PiecesBytes(_)
PiecesBytes(ps) ==
    IF ps = <<>> THEN <<>> ELSE Head(ps).bytes \o PiecesBytes(Tail(ps))

RECURSIVE SumSeq(_)
SumSeq(s) == IF s = <<>> THEN 0 ELSE Head(s) + SumSeq(Tail(s))

\* the dag-cbor map {"roots": [CIDv1], "version": v} of a CAR header: a2,
\* text(5) "roots", array(1), tag 42, bytes(37) 00 CID, text(7) "version", v
CborHeader(v, seed) ==
    <<162, 101, 114, 111, 111, 116, 115, 129, 216, 42, 88, 37, 0, 1, 113, 18, 32>>
    \o Fill(seed, 32) \o <<103, 118, 101, 114, 115, 105, 111, 110, v>>

\* header-frame := varint(byte_length) CBOR map; the filter never decodes
\* the map (58 bytes: version 1 and one CIDv1 root)
HeaderFrame ==
    [kind |-> "header", llen |-> 0,
     pieces |-> <<Str(encode_var(58)), Opq(CborHeader(1, 1))>>]

\* CIDv1: version, codec, multihash code 0x12 (sha2-256), size 0x20, digest
CidV1(codec, seed) == <<Str(<<1, codec, 18, 32>>), Opq(Fill(seed, 32))>>
\* CIDv0: the bare sha2-256 multihash 0x12 0x20 digest
CidV0(seed) == <<Str(<<18, 32>>), Opq(Fill(seed, 32))>>

\* block-frame := varint(len(CID) + len(payload)) CID payload
BlockFrame(kind, llen, cid, payload) ==
    [kind |-> kind, llen |-> llen,
     pieces |-> <<Str(encode_var(Len(PiecesBytes(cid)) + Len(PiecesBytes(payload))))>>
                 \o cid \o payload]

\* a raw leaf of n bytes
RawLeaf(seed, n) == BlockFrame("leaf", n, CidV1(RawCodec, seed), <<Opq(Fill(seed, n))>>)

\* PBNode.Links entry: key 0x12, length, and the PBLink body of n bytes (n >=
\* 40): Hash (key 0x0a, a CIDv1 of 36 bytes) and Name (key 0x12, letters that
\* fill the body up to n bytes)
PBLink(seed, n) ==
    <<Str(<<18>> \o encode_var(n)),
      Opq(<<10, 36, 1, DagPbCodec, 18, 32>> \o Fill(seed, 32)
          \o <<18>> \o encode_var(IF n - 40 < MSB THEN n - 40 ELSE n - 41)
          \o [i \in 1..(IF n - 40 < MSB THEN n - 40 ELSE n - 41) |-> 97 + (i % 26)])>>

RECURSIVE PBLinksOf(_, _, _)
PBLinksOf(seed, sizes, n) ==
    IF sizes = <<>> THEN <<>>
    ELSE PBLink(seed, n) \o PBLinksOf(seed + 1, Tail(sizes), n)

RECURSIVE BlockSizesOf(_)
BlockSizesOf(sizes) ==
    IF sizes = <<>> THEN <<>>
    ELSE <<32>> \o encode_var(Head(sizes)) \o BlockSizesOf(Tail(sizes))

\* a UnixFS file node with one link (of n bytes) per entry of sizes: the links, then
\* PBNode.Data (key 0x0a) holding Type = File, filesize and blocksizes
FileNode(cid, sizes, n) ==
    LET ufs == <<8, 2, 24>> \o encode_var(SumSeq(sizes)) \o BlockSizesOf(sizes)
    IN  BlockFrame("struct", 0, cid,
                   PBLinksOf(3, sizes, n) \o <<Str(<<10>> \o encode_var(Len(ufs)) \o ufs)>>)

\* a dag-pb leaf: no links, PBNode.Data holding Type = File, Data (n bytes)
\* and filesize
PbLeaf(cid, seed, n) ==
    LET tail == <<24>> \o encode_var(n)
        ulen == 2 + 1 + Len(encode_var(n)) + n + Len(tail)
    IN  BlockFrame("leaf", n, cid,
                   <<Str(<<10>> \o encode_var(ulen) \o <<8, 2, 18>> \o encode_var(n)),
                     Opq(Fill(seed, n)), Str(tail)>>)

\* a flat file of raw leaves
FlatRaw ==
    <<HeaderFrame, FileNode(CidV1(DagPbCodec, 11), <<1000, 1000, 1000>>, 44),
      RawLeaf(21, 1000), RawLeaf(22, 1000), RawLeaf(23, 1000)>>

\* a flat file of dag-pb leaves (the blocks tests::test_frame_loop expects
\* of sm-dagpb.car: a root and leaves of 1024 bytes)
FlatPb ==
    <<HeaderFrame, FileNode(CidV1(DagPbCodec, 12), <<1024, 1024>>, 44),
      PbLeaf(CidV1(DagPbCodec, 31), 31, 1024), PbLeaf(CidV1(DagPbCodec, 32), 32, 1024)>>

\* a two-level file in depth-first order, with CIDv0 identifiers: a root of more than SmallBlock bytes (links with long
\* names), and a second intermediate node that follows the leaf of the first
Nested ==
    <<HeaderFrame, FileNode(CidV0(13), <<1000, 1000>>, 500),
      FileNode(CidV0(14), <<1000>>, 44), PbLeaf(CidV0(41), 41, 1000),
      FileNode(CidV0(15), <<1000>>, 44), PbLeaf(CidV0(42), 42, 1000)>>

\* a file of one raw leaf whose size takes a varint of three bytes, as do the
\* 256 KiB leaves of a UnixFS file (filesize and blocksizes of the root are
\* such varints)
LargeLeaf == MSB * MSB
Large ==
    <<HeaderFrame, FileNode(CidV1(DagPbCodec, 16), <<LargeLeaf>>, 44),
      RawLeaf(24, LargeLeaf)>>

\* a flat file of raw leaves shorter than SmallBlock (a file cut in chunks of
\* 300 bytes)
SmallLeaf == 300
Small ==
    <<HeaderFrame, FileNode(CidV1(DagPbCodec, 17), <<SmallLeaf, SmallLeaf, SmallLeaf>>, 44),
      RawLeaf(25, SmallLeaf), RawLeaf(26, SmallLeaf), RawLeaf(27, SmallLeaf)>>

WellFormed == <<FlatRaw, FlatPb, Nested, Large, Small>>

\* a frame whose length prefix does not end: more bytes than the scratch
\* buffer was allocated for, every one with the top bit set
LongPrefix ==
    [kind |-> "badlen", llen |-> 0,
     pieces |-> <<Opq([i \in 1..ScratchCap + 8 |-> 2 * MSB - 1])>>]

\* a block whose CID Cid::read_bytes rejects (version 2), with a payload of
\* n bytes
BadCidBlock(seed, n) ==
    BlockFrame("badcid", 0, <<Str(<<2, RawCodec, 18, 32>>), Opq(Fill(seed, 32))>>,
               <<Opq(Fill(seed, n))>>)

\* a block of another codec, with a payload of n bytes
OtherBlock(seed, n) ==
    BlockFrame("other", 0, CidV1(DagCborCodec, seed), <<Opq(Fill(seed, n))>>)

\* streams that are not CARs of UnixFS files: the file of Small with the
\* frame in question before its last leaf
LongLen ==
    <<HeaderFrame, FileNode(CidV1(DagPbCodec, 18), <<SmallLeaf, SmallLeaf>>, 44),
      RawLeaf(28, SmallLeaf), LongPrefix, RawLeaf(29, SmallLeaf)>>

BadCid ==
    <<HeaderFrame, FileNode(CidV1(DagPbCodec, 19), <<SmallLeaf, SmallLeaf>>, 44),
      RawLeaf(51, SmallLeaf), BadCidBlock(52, SmallBlock), RawLeaf(53, SmallLeaf)>>

OtherCodec ==
    <<HeaderFrame, FileNode(CidV1(DagPbCodec, 20), <<SmallLeaf, SmallLeaf>>, 44),
      RawLeaf(54, SmallLeaf), OtherBlock(55, SmallLeaf), RawLeaf(56, SmallLeaf)>>

\* a dag-pb block whose PBNode starts with a field of an unknown tag (key
\* 0x1a: field 3, length-delimited), n bytes long
BadPbBlock(seed, n) ==
    BlockFrame("badpb", 0, CidV1(DagPbCodec, seed),
               <<Str(<<26>> \o encode_var(n)), Opq(Fill(seed, n))>>)

BadPb ==
    <<HeaderFrame, BadPbBlock(58, 44), RawLeaf(59, SmallLeaf)>>

\* a CAR header of version 2
BadHeaderFrame ==
    [kind |-> "badheader", llen |-> 0,
     pieces |-> <<Str(encode_var(58)), Opq(CborHeader(2, 1))>>]

BadVersion ==
    <<BadHeaderFrame, FileNode(CidV1(DagPbCodec, 60), <<SmallLeaf>>, 44),
      RawLeaf(61, SmallLeaf)>>

Malformed == <<LongLen, BadCid, OtherCodec, BadPb, BadVersion>>

\* the CAR of tests::unixfs_single_node: a file of one dag-pb leaf that holds
\* "hello world" and a line feed
HelloLen == 12
Single == <<HeaderFrame, PbLeaf(CidV1(DagPbCodec, 62), 62, HelloLen)>>

\* a CAR whose header has no root: the map {"roots": [], "version": 1}
NoRootsHeader ==
    <<162, 101, 114, 111, 111, 116, 115, 128, 103, 118, 101, 114, 115, 105, 111, 110, 1>>
NoRoots ==
    <<[kind |-> "badheader", llen |-> 0,
       pieces |-> <<Str(encode_var(Len(NoRootsHeader))), Opq(NoRootsHeader)>>],
      RawLeaf(63, SmallLeaf)>>

\* streams handed to nginx_handler only
Whole == <<Single, NoRoots>>

StreamFrames == WellFormed \o Malformed \o Whole
\* the CARs of UnixFS files, and the other streams
StreamIds == 1..Len(WellFormed)
MalformedIds == (Len(WellFormed) + 1)..(Len(WellFormed) + Len(Malformed))
AllIds == 1..Len(StreamFrames)

RECURSIVE FramesPieces(_)
FramesPieces(fs) ==
    IF fs = <<>> THEN <<>> ELSE Head(fs).pieces \o FramesPieces(Tail(fs))

\* where each frame lies: [kind, from, to) in stream offsets, and for a leaf
\* its logical span [lfrom, lfrom + llen)
RECURSIVE LayoutOf(_, _, _)
LayoutOf(fs, at, lat) ==
    IF fs = <<>> THEN <<>>
    ELSE LET n == Len(PiecesBytes(Head(fs).pieces))
         IN  <<[kind |-> Head(fs).kind, from |-> at, to |-> at + n,
                lfrom |-> lat, llen |-> Head(fs).llen]>>
             \o LayoutOf(Tail(fs), at + n, lat + Head(fs).llen)

RECURSIVE SortSet(_)
SortSet(X) ==
    IF X = {} THEN <<>>
    ELSE LET m == CHOOSE x \in X : \A y \in X : x <= y
         IN  <<m>> \o SortSet(X \ {m})

\* chunk boundaries, in ascending order: every offset next to a byte the
\* parser decodes, and EdgeCuts offsets at each edge of an opaque region
RECURSIVE CutsOf(_, _)
CutsOf(ps, at) ==
    IF ps = <<>> THEN <<>>
    ELSE LET n == Len(Head(ps).bytes)
             here == IF Head(ps).opaque
                     THEN {at + i : i \in 1..Min(EdgeCuts, n)}
                          \cup {at + n - i : i \in 0..Min(EdgeCuts, n - 1)}
                     ELSE {at + i : i \in 1..n}
         IN  SortSet(here) \o CutsOf(Tail(ps), at + n)

\* per stream: its bytes, its length, its layout and its chunk boundaries
\* (the first is offset 0, the last the end of the stream)
RECURSIVE StreamsOf(_)
StreamsOf(fss) ==
    IF fss = <<>> THEN <<>>
    ELSE LET ps == FramesPieces(Head(fss))
             bytes == PiecesBytes(ps)
         IN  <<[bytes |-> bytes, len |-> Len(bytes),
                layout |-> LayoutOf(Head(fss), 0, 0),
                cuts |-> <<0>> \o CutsOf(ps, 0)]>>
             \o StreamsOf(Tail(fss))

StreamTable == StreamsOf(StreamFrames)
Streams == [s \in AllIds |-> StreamTable[s].bytes]
StreamLen == [s \in AllIds |-> StreamTable[s].len]
Layout == [s \in AllIds |-> StreamTable[s].layout]
Cuts == [s \in AllIds |-> StreamTable[s].cuts]

(* ------------------------------------------------------------------ *)
(* Cid::read_bytes (cid crate) on the scratch buffer                   *)
(* ------------------------------------------------------------------ *)

\* unsigned_varint::io::read_u64 from index i of src: [ok, val, next]
ReadVarint(src, i) ==
    LET stop == VarStop(src, i, 0)
        n == IF stop = 0 THEN 0 ELSE stop - i + 1
    IN  IF stop = 0 \/ src[stop] >= MSB \/ (n > 1 /\ src[stop] = 0)
        THEN [ok |-> FALSE, val |-> 0, next |-> i]
        ELSE [ok |-> TRUE, val |-> VarValue(SubSeq(src, i, stop), n), next |-> stop + 1]

\* [ok, codec, read]: read is the reader's position after the CID
CidReadBytes(src) ==
    LET fail == [ok |-> FALSE, codec |-> 0, read |-> 0]
        version == ReadVarint(src, 1)
        codec == ReadVarint(src, version.next)
        code == ReadVarint(src, codec.next)
        size == ReadVarint(src, code.next)
    IN  IF ~version.ok \/ ~codec.ok THEN fail
        ELSE IF version.val = 18 /\ codec.val = 32
        THEN \* CIDv0: a 32-byte digest follows
             IF Len(src) >= codec.next - 1 + 32
             THEN [ok |-> TRUE, codec |-> DagPbCodec, read |-> codec.next - 1 + 32]
             ELSE fail
        ELSE IF version.val # 1 THEN fail
        ELSE IF ~code.ok \/ ~size.ok THEN fail
        ELSE IF size.val > 64 THEN fail
        ELSE IF Len(src) >= size.next - 1 + size.val
        THEN [ok |-> TRUE, codec |-> codec.val, read |-> size.next - 1 + size.val]
        ELSE fail

(* ------------------------------------------------------------------ *)
(* Framed (src/src/car_reader.rs)                                      *)
(* ------------------------------------------------------------------ *)

\* The build: usize arithmetic that underflows panics when the build has
\* overflow checks (the dev and test profiles) and wraps around when it has
\* none (the release profile).
VARIABLE checks

\* a - b in usize: a stand-in far above every length of the model for the
\* wrapped difference 2^64 - (b - a)
WrappingSub(a, b) == IF a >= b THEN a - b ELSE Pow2(30) - (b - a)

\* Framed::new
FramedNew ==
    [len |-> 0, blk_len |-> 0, blk_pos |-> 0, buf |-> <<>>, unixfs_read |-> 0,
     unixfs_len |-> 0, has_links |-> FALSE, state |-> "CarHeader"]

\* Framed::include_block
include_block(f, r) ==
    CASE f.state = "CarHeader" -> TRUE
      [] f.state \in {"UnixFsData", "RawLeaf"} ->
            IF f.unixfs_read = 0 \/ f.unixfs_len = 0
            THEN Contains(r, f.unixfs_read + 1)
            ELSE ranges_overlap(r, f.unixfs_read + 1, f.unixfs_read + f.unixfs_len)
      [] OTHER -> Contains(r, f.unixfs_read + 1)

\* Framed::is_seek
is_seek(f, r) == lt_bound(r.lo, f.unixfs_read)

\* a decode_len that carries nothing over from one chunk to the next
RECURSIVE LenNoCarry(_, _, _, _, _)
LenNoCarry(sbuf, S, at, to, i) ==
    LET d == decode_var(SubSeq(S, at + 1, at + i + 1))
    IN  IF d.ok THEN [ok |-> TRUE, size |-> d.size, read |-> i + 1, buf |-> <<>>]
        ELSE IF (to - at) - (i + 1) > 0 THEN LenNoCarry(sbuf, S, at, to, i + 1)
        ELSE [ok |-> FALSE, size |-> 0, read |-> 0, buf |-> <<>>]

\* Framed::decode_len on the bytes S[at+1..to] with scratch buffer sbuf,
\* i bytes already pushed: [ok, size, read, buf]
RECURSIVE decode_len(_, _, _, _, _)
decode_len(sbuf, S, at, to, i) ==
    LET b == Append(sbuf, S[at + i + 1])
        d == decode_var(b)
    IN  IF d.ok THEN [ok |-> TRUE, size |-> d.size, read |-> i + 1, buf |-> <<>>]
        ELSE IF (to - at) - (i + 1) > 0
        THEN IF Len(b) >= VarintMax
             THEN \* decode_var has scanned VarintMax bytes and gives up on
                  \* them whatever follows: the loop pushes the rest of the
                  \* chunk, byte by byte, and returns None
                  [ok |-> FALSE, size |-> 0, read |-> 0,
                   buf |-> b \o SubSeq(S, at + i + 2, to)]
             ELSE decode_len(b, S, at, to, i + 1)
        ELSE [ok |-> FALSE, size |-> 0, read |-> 0, buf |-> b]

\* Framed::decode_cid on the bytes S[at+1..to]: one turn of its loop pushes
\* the bytes i..min(i + 36, len) and tries to read a CID from the scratch
\* buffer.  [ok, codec, read, pos, buf]: pos is the reader's position (added
\* to blk_pos), read = pos - filled
RECURSIVE decode_cid(_, _, _, _, _, _)

\* Cid::read_bytes reads at most four varints of 10 bytes and a digest of 64
CidMax == 104

\* the scratch buffer after the bytes i..hi of the chunk were pushed
CidPush(sbuf, S, at, i, hi) ==
    sbuf \o [j \in 1..Max(hi - i, 0) |-> S[at + i + j]]

\* `match Cid::read_bytes(&mut reader)` (lines 632-646): c is what it
\* returned on the scratch buffer b, i the index to go on from
CidRead(c, b, filled, S, at, to, i) ==
    IF c.ok
    THEN [ok |-> TRUE, codec |-> c.codec, read |-> c.read - filled,
          pos |-> c.read, buf |-> <<>>]
    ELSE IF to - at > i + 1
    THEN IF Len(b) < CidMax THEN decode_cid(b, filled, S, at, to, i)
         \* no longer buffer can hold a CID: the loop pushes the chunk batch
         \* by batch and returns None after the batch that leaves at most
         \* one byte
         ELSE [ok |-> FALSE, codec |-> 0, read |-> 0, pos |-> 0,
               buf |-> CidPush(b, S, at, i,
                               IF (to - at - 1 - i) % CidBatch = 0 THEN to - at - 1
                               ELSE to - at)]
    ELSE [ok |-> FALSE, codec |-> 0, read |-> 0, pos |-> 0, buf |-> b]

CidTurn(b, filled, S, at, to, i) ==
    CidRead(CidReadBytes(b), b, filled, S, at, to, i)

decode_cid(sbuf, filled, S, at, to, i) ==
    LET hi == Min(i + CidBatch, to - at)
    IN  CidTurn(CidPush(sbuf, S, at, i, hi), filled, S, at, to,
                (IF hi > i THEN hi - 1 ELSE i) + 1)

PbStates ==
    {"MerkleDag", "UnixFs", "PBData", "DataType", "FileSize", "BlockSizes",
     "PBLinks", "UnixFsData"}

\* The locals of Framed::next while it reads the chunk S[base+1..base+n]:
\* L.f is the Framed, cur the bytes of the chunk consumed (current is the
\* chunk from cur on), ret is set by the early return, crashed by a panic
\* (unimplemented!, unreachable!, unwrap, usize underflow under checks).

\* `pos += maybe; maybe = 0`
Flush(L) == [L EXCEPT !.pos = L.pos + L.maybe, !.maybe = 0]

\* `if self.include_block() { pos += k } else { maybe += k }`
Count(L, inc, k) ==
    IF inc THEN [L EXCEPT !.pos = @ + k] ELSE [L EXCEPT !.maybe = @ + k]

Crash(L) == [L EXCEPT !.crashed = TRUE]

\* state == FrameType::Cid (lines 294-340): d is what decode_cid returned
CidDecoded(L, r, n, d) ==
    LET f == L.f
    IN  IF d.ok
        THEN LET f1 == [f EXCEPT !.buf = <<>>, !.blk_pos = @ + d.pos, !.state = "Block"]
                 L1 == Count([L EXCEPT !.f = f1, !.cur = @ + d.read],
                             include_block(f1, r), d.read)
                 f2 == IF d.codec = RawCodec
                       THEN [f1 EXCEPT !.state = "RawLeaf",
                                       !.len = WrappingSub(f1.blk_len, f1.blk_pos),
                                       !.unixfs_len = WrappingSub(f1.blk_len, f1.blk_pos)]
                       ELSE [f1 EXCEPT !.state = "MerkleDag"]
                 L2 == [L1 EXCEPT !.f = f2]
             IN  IF d.read < 0 \/ d.codec \notin {RawCodec, DagPbCodec}
                    \/ (d.codec = RawCodec /\ f1.blk_len < f1.blk_pos /\ checks)
                 THEN Crash(L1)
                 ELSE IF include_block(f2, r) \/ f2.blk_len < SmallBlock
                 THEN Flush(L2) ELSE L2
        ELSE [L EXCEPT !.f.buf = d.buf, !.cur = n,
                       !.pos = IF include_block(f, r) \/ f.blk_len < SmallBlock
                               THEN n ELSE @]

CidStep(L, r, S, base, n) ==
    CidDecoded(L, r, n,
               decode_cid(L.f.buf, Len(L.f.buf), S, base + L.cur, base + n, 0))

\* the match on self.state after a length was decoded (lines 356-464)
LenDecoded(L, size, read) ==
    LET f == L.f
        wire == size % 8
        tag == size \div 8
        adv == [f EXCEPT !.blk_pos = @ + read]
    IN  CASE f.state = "Block" ->
               LET L1 == [L EXCEPT !.f = [f EXCEPT !.state = "Cid", !.blk_len = size,
                                                    !.len = 0, !.has_links = FALSE]]
               IN  IF size < SmallBlock THEN Flush(L1) ELSE L1
          [] f.state = "MerkleDag" ->
               IF wire > 5 \/ tag \notin {1, 2} THEN Crash(L)
               ELSE [L EXCEPT !.f = [adv EXCEPT !.len = 0,
                         !.state = IF tag = 2 THEN "PBLinks" ELSE "PBData"]]
          [] f.state = "UnixFs" ->
               IF wire > 5 \/ tag \notin 1..6 THEN Crash(L)
               ELSE IF tag \in {5, 6} THEN [L EXCEPT !.f = adv]
               ELSE [L EXCEPT !.f = [adv EXCEPT !.len = 0,
                         !.state = CASE tag = 1 -> "DataType"
                                     [] tag = 2 -> "UnixFsData"
                                     [] tag = 3 -> "FileSize"
                                     [] OTHER -> "BlockSizes"]]
          [] f.state = "PBLinks" ->
               [L EXCEPT !.f = [adv EXCEPT !.has_links = TRUE]]
          [] f.state = "UnixFsData" ->
               IF adv.blk_len < adv.blk_pos /\ checks THEN Crash(L)
               ELSE [L EXCEPT !.f = [adv EXCEPT !.unixfs_len = size,
                                                !.len = WrappingSub(adv.blk_len, adv.blk_pos)]]
          [] f.state \in {"PBData", "DataType", "FileSize", "BlockSizes"} ->
               IF (f.state = "DataType" /\ size > 5) \/ (adv.blk_len < adv.blk_pos /\ checks)
               THEN Crash(L)
               ELSE IF WrappingSub(adv.blk_len, adv.blk_pos) = 0
               THEN LET L1 == [L EXCEPT !.f = [adv EXCEPT !.len = 0, !.state = "Block",
                                                          !.blk_pos = 0]]
                    IN  IF f.unixfs_len = 0 THEN Flush(L1) ELSE L1
               ELSE [L EXCEPT !.f = [adv EXCEPT !.len = 0, !.state = "UnixFs"]]
          [] OTHER -> L

\* beginning of the frame: self.len == 0 (lines 342-493)
LenStep(L, r, S, base, n) ==
    LET f == L.f
        d == decode_len(f.buf, S, base + L.cur, base + n, 0)
        L1 == IF d.ok
              THEN LenDecoded(
                     Count([L EXCEPT !.f = [f EXCEPT !.buf = <<>>, !.len = d.size],
                                     !.cur = @ + d.read],
                           include_block(f, r), d.read),
                     d.size, d.read)
              ELSE LET f1 == [f EXCEPT !.buf = d.buf,
                                       !.blk_pos = IF f.state \in PbStates
                                                   THEN @ + Len(d.buf) ELSE @]
                   IN  IF include_block(f, r)
                       THEN [L EXCEPT !.f = f1, !.cur = n, !.pos = n]
                       ELSE [L EXCEPT !.f = f1, !.cur = n, !.maybe = n]
    IN  IF L1.f.has_links /\ ~L1.crashed THEN Flush(L1) ELSE L1

\* an end of frame that treats a leaf as any other frame: the logical cursor
\* is left where it was
EndKeepsCursor(L, r, n) ==
    LET f == L.f
        L1 == IF include_block(f, r)
              THEN [L EXCEPT !.pos = @ + f.len + L.maybe, !.maybe = 0]
              ELSE [L EXCEPT !.maybe = @ + f.len]
        L2 == CASE f.state = "CarHeader" -> [L1 EXCEPT !.f.state = "Block"]
                [] f.state = "PBLinks" ->
                     [L1 EXCEPT !.f.state = "MerkleDag", !.f.blk_pos = @ + f.len]
                [] f.state \in {"UnixFsData", "RawLeaf"} ->
                     [L1 EXCEPT !.f.blk_pos = 0, !.f.state = "Block",
                                !.f.unixfs_len = 0]
                [] OTHER -> L1
    IN  [L2 EXCEPT !.cur = @ + f.len, !.f.len = 0]

\* end of the frame: current.len() >= self.len (lines 496-543)
EndStep(L, r, n) ==
    LET f == L.f
        inc == include_block(f, r)
        L1 == IF inc THEN [L EXCEPT !.pos = @ + f.len + L.maybe, !.maybe = 0]
              ELSE [L EXCEPT !.maybe = @ + f.len]
        L2 == CASE f.state = "CarHeader" -> [L1 EXCEPT !.f.state = "Block"]
                [] f.state = "PBLinks" ->
                     [L1 EXCEPT !.f.state = "MerkleDag", !.f.blk_pos = @ + f.len]
                [] f.state \in {"UnixFsData", "RawLeaf"} ->
                     LET L3 == IF L1.maybe > 0
                               THEN IF L1.pos > L1.start
                                    THEN [L1 EXCEPT
                                            !.ranges = Append(@, <<L1.start, L1.pos>>),
                                            !.start = L1.start + L1.pos + L1.maybe,
                                            !.pos = L1.start + L1.pos + L1.maybe,
                                            !.maybe = 0]
                                    ELSE [L1 EXCEPT !.start = @ + L1.maybe,
                                                    !.pos = L1.start + L1.maybe,
                                                    !.maybe = 0]
                               ELSE L1
                     IN  [L3 EXCEPT !.f.blk_pos = 0, !.f.state = "Block",
                                    !.f.unixfs_read = @ + f.unixfs_len,
                                    !.f.unixfs_len = 0]
                [] OTHER -> L1
    IN  [L2 EXCEPT !.cur = @ + f.len, !.f.len = 0]

\* a turn on a partial frame that consumes nothing
PartialStalls(L, r, n) == L

\* partial frame (lines 545-570)
PartialStep(L, r, n) ==
    LET f == L.f
        rem == n - L.cur
        inc == include_block(f, r)
        L1 == IF inc THEN [L EXCEPT !.pos = @ + rem + L.maybe, !.maybe = 0]
              ELSE [L EXCEPT !.maybe = @ + rem]
        L2 == CASE f.state = "PBLinks" ->
                     [L1 EXCEPT !.f.blk_pos = @ + rem, !.pos = @ + L1.maybe]
                [] f.state = "UnixFsData" -> [L1 EXCEPT !.f.blk_pos = @ + rem]
                [] OTHER -> L1
    IN  [L2 EXCEPT !.f.len = @ - rem, !.cur = n]

\* one turn of the loop `while current.len() > 0` of Framed::next (lines
\* 289-571); a loop that has ended (chunk consumed, early return, panic) is
\* left as it is
NextStep(L, r, S, base, n) ==
    IF L.cur >= n \/ L.crashed \/ L.ret THEN L
    ELSE IF gt_bound(r.hi, L.f.unixfs_read) THEN [L EXCEPT !.ret = TRUE]
    ELSE IF L.f.state = "Cid" THEN CidStep(L, r, S, base, n)
    ELSE IF L.f.len = 0 THEN LenStep(L, r, S, base, n)
    ELSE IF n - L.cur >= L.f.len THEN EndStep(L, r, n)
    ELSE PartialStep(L, r, n)

\* the loop: at most k turns from L.  Every turn consumes at least one byte
\* of the chunk or ends the loop, so k = n turns run it to its end; the
\* turns are split in halves to keep the evaluation shallow.
RECURSIVE NextLoop(_, _, _, _, _, _)
NextLoop(L, r, S, base, n, k) ==
    IF L.cur >= n \/ L.crashed \/ L.ret THEN L
    ELSE IF k <= 1 THEN NextStep(L, r, S, base, n)
    ELSE NextLoop(NextLoop(L, r, S, base, n, k \div 2), r, S, base, n,
                  k - (k \div 2))

\* Framed::next(buf) with buf = S[base+1..base+n]: the Framed afterwards, the
\* (start, end) pairs returned (with the pair pushed when the loop is left),
\* and whether the call panicked
NextReturn(L) ==
    [f |-> L.f, ranges |-> Append(L.ranges, <<L.start, L.pos>>),
     crashed |-> L.crashed]

next(f, r, S, base, n) ==
    NextReturn(
        NextLoop([f |-> f, ranges |-> <<>>, start |-> 0, pos |-> 0, maybe |-> 0,
                  cur |-> 0, ret |-> FALSE, crashed |-> FALSE], r, S, base, n, n))

(* ------------------------------------------------------------------ *)
(* The input and the ranges                                            *)
(* ------------------------------------------------------------------ *)

Range(lo, hi) == [lo |-> lo, hi |-> hi]

\* the ranges requested: .., a.., ..b, a..b and a..=b
Ranges ==
    {Range(Unbounded, Unbounded),
     Range(Included(0), Included(0)),
     Range(Unbounded, Excluded(1024)),
     Range(Unbounded, Excluded(1001)),
     Range(Unbounded, Excluded(500)),
     Range(Unbounded, Excluded(3001)),
     Range(Unbounded, Excluded(5000)),
     Range(Included(0), Excluded(1025)),
     Range(Included(0), Included(1000)),
     Range(Included(1025), Excluded(1048)),
     Range(Included(500), Included(1500)),
     Range(Included(1500), Unbounded),
     Range(Included(5000), Unbounded)}

\* the chunk boundaries at which a chunk that starts at boundary i of stream
\* s may end in a run of stride k: k boundaries further (the first chunk of
\* the run may be shorter); stride 0 hands the stream over in one chunk
NextEnds(s, i, k) ==
    LET n == Len(Cuts[s])
    IN  IF i >= n THEN {}
        ELSE IF k = 0 THEN {n}
        ELSE IF i = 1 THEN {Min(i + j, n) : j \in 1..k}
        ELSE {Min(i + k, n)}

\* the chains of at most m chunks that start at boundary i, each as the list
\* of the boundaries at which its chunks end
RECURSIVE Chains(_, _, _, _)
Chains(s, i, k, m) ==
    IF m = 0 THEN {}
    ELSE {<<e>> : e \in NextEnds(s, i, k)}
         \cup UNION {{<<e>> \o c : c \in Chains(s, e, k, m - 1)} :
                       e \in NextEnds(s, i, k)}

\* the chunk boundaries of a stream delivered in a few large buffers, as the
\* buffer tests cut fixture.car: the ends of the frames and, in each leaf
\* frame, a boundary inside its payload (indices into Cuts[s])
CoarseCuts(s) ==
    {j \in 1..Len(Cuts[s]) :
        \E i \in 1..Len(Layout[s]) :
            \/ Cuts[s][j] = Layout[s][i].to
            \/ Layout[s][i].kind = "leaf" /\ Cuts[s][j] = Layout[s][i].to - 1}

CoarseEnds(s, i) == {j \in CoarseCuts(s) : j > i}

\* the chains of at most m such buffers that start at boundary i
RECURSIVE CoarseChains(_, _, _)
CoarseChains(s, i, m) ==
    IF m = 0 THEN {}
    ELSE {<<e>> : e \in CoarseEnds(s, i)}
         \cup UNION {{<<e>> \o c : c \in CoarseChains(s, e, m - 1)} :
                       e \in CoarseEnds(s, i)}

(* ------------------------------------------------------------------ *)
(* State                                                               *)
(* ------------------------------------------------------------------ *)

VARIABLES
    sid,        \* the stream being served
    range,      \* Framed::range
    mode,       \* "buffer": chains go through CarBufferContext::buffer;
                \* "framed": chunks go to Framed::next (tests::test_frame_loop)
    stride,     \* chunk boundaries per chunk in this run (0: one chunk)
    coarse,     \* the run delivers the stream in large buffers (CoarseCuts)
    cut,        \* the chunk boundary up to which the stream was handed in
    fed,        \* the number of chunks handed in so far (at most MaxFed counted)
    f,          \* CarBufferContext::framed
    done,       \* CarBufferContext::done (CarBufferContext::pos, which
                \* buffer only writes, is left out)
    out,        \* the output so far: stream intervals <<from, to>> in the order
                \* emitted, adjacent ones merged
    crashed,    \* the call panicked
    retNull,    \* the last call of buffer returned a null chain
    skipped,    \* ... and returned at once, done being set
    flagged,    \* buffer has set last_buf and last_in_chain on some buffer
    lastFlagged,\* ... on the buffer of the last chunk processed
    lastEmpty,  \* buffer has set the buffer of the last chunk processed empty
    late        \* after buffer flagged a buffer, a non-empty buffer was
                \* appended to the output or unixfs_read changed

\* a filter run
run == <<checks, sid, range, mode, stride, coarse, cut, fed, f, done, out, crashed, retNull, skipped,
         flagged, lastFlagged, lastEmpty, late>>

\* Functions of the program exercised on their own, apart from a filter run
VARIABLE lp     \* Framed::decode_len fed a length prefix chunk by chunk
VARIABLE h      \* a request served by nginx_handler (src/src/lib.rs)
VARIABLE pr     \* parse_range given the arguments of a request (src/src/request.rs)

apart == <<lp, h, pr>>

vars == <<run, apart>>

\* no function is exercised on its own
Off == [on |-> FALSE]

\* bytes of the stream handed in so far
off == Cuts[sid][cut]

\* append the stream interval [a, b) to the output
Emit(o, a, b) ==
    IF a >= b THEN o
    ELSE IF o # <<>> /\ o[Len(o)][2] = a
    THEN [o EXCEPT ![Len(o)] = <<o[Len(o)][1], b>>]
    ELSE Append(o, <<a, b>>)

\* a run on one of the streams ids
InitOn(ids) ==
    /\ checks \in BOOLEAN
    /\ sid \in ids
    /\ range \in Ranges
    /\ mode \in {"buffer", "framed"}
    /\ coarse \in BOOLEAN
    /\ stride \in (IF coarse THEN {0} ELSE 0..MaxSpan)
    /\ cut = 1
    /\ fed = 0
    /\ f = FramedNew
    /\ done = 0
    /\ out = <<>>
    /\ crashed = FALSE
    /\ retNull = FALSE
    /\ skipped = FALSE
    /\ flagged = FALSE
    /\ lastFlagged = FALSE
    /\ lastEmpty = FALSE
    /\ late = FALSE
    /\ lp = Off
    /\ h = Off
    /\ pr = Off

Init == InitOn(StreamIds)

\* the filter fed a stream that is not the CAR of a UnixFS file
InitMalformed == InitOn(MalformedIds)

(* ------------------------------------------------------------------ *)
(* CarBufferContext::buffer                                            *)
(* ------------------------------------------------------------------ *)

\* a buffer that never takes the end bound for met
NeverLast(r, fr) == FALSE

\* the end-bound test of buffer (lines 118-124); b - 1 underflows for
\* Excluded(0)
is_last(r, fr) ==
    CASE r.hi.k = "I" -> r.hi.v = fr.unixfs_read
      [] r.hi.k = "E" -> WrappingSub(r.hi.v, 1) = fr.unixfs_read
      [] OTHER -> FALSE

\* `for (start, end) in parts` (lines 113-159) from part i on, for the chunk
\* S[base+1..base+n]; blen is buf.len(), which set_empty makes 0.  When
\* buf.len() - end underflows the call panics under checks; wrapping, sub is
\* a huge length, and a part that is not skipped moves `last` beyond the end
\* of the buffer (ngx_buf_remove_end), which is recorded as crashed.
\* c: [done, out, crashed, last (the buffer was flagged), emitted, empty
\* (set_empty was called on the buffer)]
RECURSIVE PartsLoop(_, _, _, _, _, _, _)
PartsLoop(c, fr, r, parts, i, base, blen) ==
    IF i > Len(parts) THEN c
    ELSE LET start == parts[i][1]
             end == parts[i][2]
             sub == WrappingSub(blen, end)
             last == (sub > 0 /\ ~is_seek(fr, r)) \/ is_last(r, fr)
             c1 == [c EXCEPT !.done = IF last THEN 1 ELSE @,
                             !.last = @ \/ last]
         IN  IF checks /\ (blen < end \/ (r.hi.k = "E" /\ r.hi.v = 0))
             THEN [c EXCEPT !.crashed = TRUE]
             ELSE IF sub = blen \/ start = end
             THEN PartsLoop([c1 EXCEPT !.empty = TRUE], fr, r, parts, i + 1, base, 0)
             ELSE IF blen < end
             THEN [c1 EXCEPT !.crashed = TRUE]
             ELSE [c1 EXCEPT !.out = Emit(@, base + start, base + end),
                             !.emitted = TRUE]

\* one turn of `while !cl.is_null()` (lines 104-160): the chunk
\* S[base+1..base+n] goes through Framed::next and its first non-empty part
\* is appended to the output chain; res is what Framed::next returned.
\* c: [f, done, out, crashed, null, flagged, lastFlagged, lastEmpty, late]
BufferParts(c, r, base, n, res) ==
    LET p == PartsLoop([done |-> c.done, out |-> c.out,
                        crashed |-> FALSE, last |-> FALSE, emitted |-> FALSE,
                        empty |-> FALSE],
                       res.f, r, res.ranges, 1, base, n)
    IN  IF res.crashed THEN [c EXCEPT !.f = res.f, !.crashed = TRUE]
        ELSE [f |-> res.f, done |-> p.done, out |-> p.out,
              crashed |-> p.crashed,
              null |-> c.null /\ ~p.emitted,
              flagged |-> c.flagged \/ p.last,
              lastFlagged |-> p.last,
              lastEmpty |-> p.empty,
              late |-> c.late
                       \/ (c.flagged
                           /\ (p.emitted \/ res.f.unixfs_read # c.f.unixfs_read))]

BufferLink(c, r, S, base, n) ==
    BufferParts(c, r, base, n, next(c.f, r, S, base, n))

\* the links of the chain in turn: link i ends at stream offset ends[i]
RECURSIVE BufferLinks(_, _, _, _, _, _)
BufferLinks(c, r, S, from, ends, i) ==
    IF i > Len(ends) \/ c.crashed THEN c
    ELSE BufferLinks(BufferLink(c, r, S, from, ends[i] - from), r, S,
                     ends[i], ends, i + 1)

\* a buffer that goes on after done was set
NeverDone(d) == FALSE

\* `if self.done == 1 { return out; }` (lines 98-100)
BufferDone(d) == d = 1

\* the context and the chain returned when the loop over the links is left
BufferReturn(c) ==
    /\ f' = c.f
    /\ done' = c.done
    /\ out' = c.out
    /\ crashed' = c.crashed
    /\ retNull' = c.null
    /\ flagged' = c.flagged
    /\ lastFlagged' = c.lastFlagged
    /\ lastEmpty' = c.lastEmpty
    /\ late' = c.late

\* CarBufferContext::buffer(input), input a chain of chunks of the stream
Buffer(chain) ==
    /\ mode = "buffer"
    /\ ~crashed
    /\ cut' = chain[Len(chain)]
    /\ fed' = Min(fed + Len(chain), MaxFed)
    /\ skipped' = BufferDone(done)
    /\ IF BufferDone(done)
       THEN /\ retNull' = TRUE
            /\ lastEmpty' = FALSE
            /\ UNCHANGED <<f, done, out, crashed, flagged, lastFlagged, late>>
       ELSE BufferReturn(
                BufferLinks(
                    [f |-> f, done |-> done, out |-> out,
                     crashed |-> FALSE, null |-> TRUE, flagged |-> flagged,
                     lastFlagged |-> lastFlagged, lastEmpty |-> lastEmpty,
                     late |-> late],
                    range, Streams[sid], off,
                    [i \in 1..Len(chain) |-> Cuts[sid][chain[i]]], 1))
    /\ UNCHANGED <<checks, sid, range, mode, stride, coarse, apart>>

(* ------------------------------------------------------------------ *)
(* tests::test_frame_loop: Framed::next on each section, every part    *)
(* section[start..end] appended to the output                          *)
(* ------------------------------------------------------------------ *)

RECURSIVE EmitParts(_, _, _, _, _)
EmitParts(o, parts, i, base, n) ==
    IF i > Len(parts) THEN [out |-> o, crashed |-> FALSE]
    ELSE IF parts[i][1] > parts[i][2] \/ parts[i][2] > n
    THEN [out |-> o, crashed |-> TRUE]
    ELSE EmitParts(Emit(o, base + parts[i][1], base + parts[i][2]), parts, i + 1,
                   base, n)

\* `for (start, end) in parts { buf.extend_from_slice(&section[start..end]) }`
FrameExtend(res, em) ==
    /\ f' = res.f
    /\ out' = em.out
    /\ crashed' = (res.crashed \/ em.crashed)

FrameParts(res, n) == FrameExtend(res, EmitParts(out, res.ranges, 1, off, n))

FrameLoop(e) ==
    /\ mode = "framed"
    /\ ~crashed
    /\ FrameParts(next(f, range, Streams[sid], off, Cuts[sid][e] - off),
                  Cuts[sid][e] - off)
    /\ cut' = e
    /\ fed' = Min(fed + 1, MaxFed)
    /\ UNCHANGED apart
    /\ UNCHANGED <<checks, sid, range, mode, stride, coarse, done, retNull, skipped, flagged,
                 lastFlagged, lastEmpty, late>>

Next ==
    \/ ~coarse /\ \E chain \in Chains(sid, cut, stride, MaxLinks) : Buffer(chain)
    \/ ~coarse /\ \E e \in NextEnds(sid, cut, stride) : FrameLoop(e)
    \/ coarse /\ \E chain \in CoarseChains(sid, cut, MaxLinks) : Buffer(chain)
    \/ coarse /\ \E e \in CoarseEnds(sid, cut) : FrameLoop(e)

Spec == Init /\ [][Next]_vars

SpecMalformed == InitMalformed /\ [][Next]_vars

(* ------------------------------------------------------------------ *)
(* Framed::decode_len on a length prefix that arrives in pieces        *)
(* ------------------------------------------------------------------ *)

\* no filter run: the variables of a run stay as Framed::new leaves them
NoRun ==
    /\ checks = FALSE
    /\ sid = 1
    /\ range = Range(Unbounded, Unbounded)
    /\ mode = "framed"
    /\ coarse = FALSE
    /\ stride = 0
    /\ cut = 1
    /\ fed = 0
    /\ f = FramedNew
    /\ done = 0
    /\ out = <<>>
    /\ crashed = FALSE
    /\ retNull = FALSE
    /\ skipped = FALSE
    /\ flagged = FALSE
    /\ lastFlagged = FALSE
    /\ lastEmpty = FALSE
    /\ late = FALSE

\* the lengths encoded: those at which a LEB128 encoding gets a byte longer,
\* and block lengths of the streams
LenValues ==
    {0, 1, Len(CborHeader(1, 1)), MSB - 1, MSB, SmallLeaf, SmallBlock + CidBatch, MSB * MSB - 1, MSB * MSB,
     MSB * MSB * MSB - 1, MSB * MSB * MSB, MSB * MSB * MSB * MSB}

\* their encodings, and two that are longer than need be
LenEncodings ==
    {encode_var(v) : v \in LenValues} \cup {<<MSB, 0>>, <<2 * MSB - 1, MSB, 1>>}

\* the bytes that follow the length prefix in the input
Trails == {Fill(3, n) : n \in 0..MaxTrail} \cup {<<MSB + 1, 2>>}

InitVarint ==
    /\ NoRun
    /\ h = Off
    /\ pr = Off
    /\ \E e \in LenEncodings, t \in Trails :
          lp = [on |-> TRUE, src |-> e \o t, at |-> 0, prev |-> 0, buf |-> <<>>,
                calls |-> 0, ok |-> FALSE, size |-> 0, read |-> 0]

\* decode_len returned: what it returned and the scratch buffer it left
LenReturn(d, k) ==
    lp' = [lp EXCEPT !.buf = d.buf, !.prev = lp.at,
                     !.at = IF d.ok THEN lp.at + d.read ELSE lp.at + k,
                     !.calls = @ + 1, !.ok = d.ok, !.size = d.size, !.read = d.read]

\* one call of decode_len on the next k bytes of the input, as Framed::next
\* makes it on a chunk that starts where the last one ended
DecodeLen(k) ==
    /\ lp.on /\ ~lp.ok
    /\ lp.at + k <= Len(lp.src)
    /\ LenReturn(decode_len(lp.buf, lp.src, lp.at, lp.at + k, 0), k)
    /\ UNCHANGED <<run, h, pr>>

NextVarint == \E k \in 1..(VarintMax + MaxTrail) : DecodeLen(k)

SpecVarint == InitVarint /\ [][NextVarint]_vars

(* ------------------------------------------------------------------ *)
(* nginx_handler (src/src/lib.rs): the filter over a whole request,    *)
(* reading the CAR frame by frame and writing the frames it keeps      *)
(* ------------------------------------------------------------------ *)

\* VarIntReader::read_varint (integer_encoding) at offset pos of src:
\* [st, val, next]; st is "eof" for ErrorKind::UnexpectedEof (the input ends
\* before the last byte of the varint) and "err" for an eleventh byte
read_varint(src, pos) ==
    LET stop == VarStop(src, pos + 1, 0)
    IN  IF stop = 0 THEN [st |-> "eof", val |-> 0, next |-> pos]
        ELSE IF src[stop] >= MSB
        THEN [st |-> IF stop < Len(src) THEN "err" ELSE "eof", val |-> 0, next |-> pos]
        ELSE [st |-> "ok", val |-> VarValue(SubSeq(src, pos + 1, stop), stop - pos),
              next |-> stop]

\* lp_read: the varint, then read_exact of as many bytes: the buffer is
\* src[from + 1 .. to]
lp_read(src, pos) ==
    LET l == read_varint(src, pos)
    IN  IF l.st # "ok" THEN [st |-> l.st, from |-> pos, to |-> pos]
        ELSE IF l.next + l.val > Len(src) THEN [st |-> "eof", from |-> pos, to |-> pos]
        ELSE [st |-> "ok", from |-> l.next, to |-> l.next + l.val]

\* lp_write: what it appends to the output
lp_write(bytes) == encode_var(Len(bytes)) \o bytes

\* Cid::to_bytes of the CID Cid::read_bytes decodes from src: a CIDv0 is its
\* multihash, a CIDv1 the varints of version, codec, hash code and digest
\* size, then the digest
CidToBytes(src) ==
    LET version == ReadVarint(src, 1)
        codec == ReadVarint(src, version.next)
        code == ReadVarint(src, codec.next)
        size == ReadVarint(src, code.next)
    IN  IF version.val = 18 /\ codec.val = 32
        THEN <<18, 32>> \o SubSeq(src, codec.next, codec.next + 31)
        ELSE encode_var(version.val) \o encode_var(codec.val) \o encode_var(code.val)
             \o encode_var(size.val) \o SubSeq(src, size.next, size.next + size.val - 1)

\* serde_ipld_dagcbor::from_slice::<CarHeader>, on the maps the streams of
\* the model hold: a map of two entries, "roots" (an array of fewer than 24
\* CIDs, each tag 42 on a byte string of a zero byte and the CID) and
\* "version" (an integer below 24), and nothing after: [ok, roots, version]
RECURSIVE CborRoots(_, _, _)
CborRoots(buf, i, k) ==
    IF k = 0 THEN i
    ELSE IF i + 4 > Len(buf) \/ SubSeq(buf, i, i + 2) # <<216, 42, 88>> \/ buf[i + 3] < 1
            \/ i + 3 + buf[i + 3] > Len(buf) \/ buf[i + 4] # 0
    THEN 0
    ELSE LET c == SubSeq(buf, i + 5, i + 3 + buf[i + 3])
         IN  IF CidReadBytes(c).ok /\ CidReadBytes(c).read = Len(c)
             THEN CborRoots(buf, i + 4 + buf[i + 3], k - 1)
             ELSE 0

DecodeHeader(buf) ==
    LET fail == [ok |-> FALSE, roots |-> 0, version |-> 0]
        roots == <<101, 114, 111, 111, 116, 115>>
        version == <<103, 118, 101, 114, 115, 105, 111, 110>>
    IN  IF Len(buf) < 8 \/ buf[1] # 162 \/ SubSeq(buf, 2, 7) # roots THEN fail
        ELSE IF buf[8] < 128 \/ buf[8] > 151 THEN fail
        ELSE LET i == CborRoots(buf, 9, buf[8] - 128)
             IN  IF i = 0 \/ i + 8 # Len(buf) \/ SubSeq(buf, i, i + 7) # version
                    \/ buf[i + 8] > 23
                 THEN fail
                 ELSE [ok |-> TRUE, roots |-> buf[8] - 128, version |-> buf[i + 8]]

\* prost: the fields of the protobuf message src[i .. to], in order, each
\* [tag, wire, val, from, to] (a varint's value, or the bytes src[from + 1 ..
\* to] of a length-delimited field); not ok for a key or a length that does
\* not end, a wire type above 5, tag 0, or a field longer than the message.
\* No stream of the model holds a group (wire types 3 and 4).
RECURSIVE PbFields(_, _, _)

\* the field was read up to index end (0: it does not end in the message)
PbField(src, to, fd, end) ==
    IF fd.tag = 0 \/ end = 0 THEN [ok |-> FALSE, fields |-> <<>>]
    ELSE [ok |-> TRUE, fields |-> <<[fd EXCEPT !.to = end]>>]

\* the fields that follow field one
PbRest(one, rest) ==
    IF ~one.ok \/ ~rest.ok THEN [ok |-> FALSE, fields |-> <<>>]
    ELSE [ok |-> TRUE, fields |-> one.fields \o rest.fields]

\* the key of the field ends at kstop; vstop is where a varint after it ends
PbValue(src, to, kstop, key, vstop, vok) ==
    PbField(src, to,
            [tag |-> key \div 8, wire |-> key % 8,
             val |-> IF vok THEN VarValue(SubSeq(src, kstop + 1, vstop), vstop - kstop) ELSE 0,
             from |-> IF key % 8 = 2 THEN vstop ELSE kstop, to |-> 0],
            CASE key % 8 = 0 -> IF vok THEN vstop ELSE 0
              [] key % 8 = 1 -> IF kstop + 8 <= to THEN kstop + 8 ELSE 0
              [] key % 8 = 5 -> IF kstop + 4 <= to THEN kstop + 4 ELSE 0
              [] key % 8 = 2 ->
                    IF vok /\ vstop + VarValue(SubSeq(src, kstop + 1, vstop), vstop - kstop) <= to
                    THEN vstop + VarValue(SubSeq(src, kstop + 1, vstop), vstop - kstop)
                    ELSE 0
              [] OTHER -> 0)

PbKey(src, i, to, kstop, vstop) ==
    IF kstop = 0 \/ kstop > to \/ src[kstop] >= MSB THEN [ok |-> FALSE, fields |-> <<>>]
    ELSE PbValue(src, to, kstop, VarValue(SubSeq(src, i, kstop), kstop - i + 1), vstop,
                 vstop # 0 /\ vstop <= to /\ src[vstop] < MSB)

\* the first field of src[i .. to]
PbFirst(src, i, to, kstop) ==
    PbKey(src, i, to, kstop, IF kstop = 0 THEN 0 ELSE VarStop(src, kstop + 1, 0))

\* the fields after the first, which is one
PbAfter(src, to, one) ==
    IF ~one.ok THEN one ELSE PbRest(one, PbFields(src, one.fields[1].to + 1, to))

PbFields(src, i, to) ==
    IF i > to THEN [ok |-> TRUE, fields |-> <<>>]
    ELSE PbAfter(src, to, PbFirst(src, i, to, VarStop(src, i, 0)))

\* the last field of tag t, 0 when there is none
LastField(fields, t) ==
    LET at == {j \in 1..Len(fields) : fields[j].tag = t}
    IN  IF at = {} THEN 0 ELSE CHOOSE j \in at : \A k \in at : k <= j

\* dag_pb::PbLink::decode of src[from + 1 .. to], m being its fields: Hash =
\* 1 (bytes), Name = 2 (a string: the names of the model are ASCII), Tsize =
\* 3 (a varint)
PbLinkFields(src, m) ==
    /\ m.ok
    /\ \A j \in 1..Len(m.fields) :
          /\ m.fields[j].tag \in {1, 2} => m.fields[j].wire = 2
          /\ m.fields[j].tag = 2 =>
                \A x \in (m.fields[j].from + 1)..m.fields[j].to : src[x] < MSB
          /\ m.fields[j].tag = 3 => m.fields[j].wire = 0

PbLinkOk(src, from, to) == PbLinkFields(src, PbFields(src, from + 1, to))

\* dag_pb::PbNode::decode, m being the fields of the message: Data = 1
\* (bytes), Links = 2 (PbLink messages); other fields are skipped: [ok,
\* links, data, from, to]
PbNodeFields(src, m) ==
    LET d == LastField(m.fields, 1)
    IN  IF /\ m.ok
           /\ \A j \in 1..Len(m.fields) :
                 /\ m.fields[j].tag \in {1, 2} => m.fields[j].wire = 2
                 /\ m.fields[j].tag = 2 => PbLinkOk(src, m.fields[j].from, m.fields[j].to)
        THEN [ok |-> TRUE,
              links |-> Cardinality({j \in 1..Len(m.fields) : m.fields[j].tag = 2}),
              data |-> d # 0,
              from |-> IF d = 0 THEN 0 ELSE m.fields[d].from,
              to |-> IF d = 0 THEN 0 ELSE m.fields[d].to]
        ELSE [ok |-> FALSE, links |-> 0, data |-> FALSE, from |-> 0, to |-> 0]

\* PbNode::decode of src[from + 1 .. to]
PbNodeDecode(src, from, to) == PbNodeFields(src, PbFields(src, from + 1, to))

\* unixfs_pb::Data::decode, m being the fields of the message: Type = 1, Data
\* = 2 (bytes), filesize = 3, blocksizes = 4 (varints, or packed), hashType =
\* 5, fanout = 6: [ok, type, data, len]
UnixFsFields(m) ==
    LET t == LastField(m.fields, 1)
        d == LastField(m.fields, 2)
    IN  IF /\ m.ok
           /\ \A j \in 1..Len(m.fields) :
                 /\ m.fields[j].tag \in {1, 3, 5, 6} => m.fields[j].wire = 0
                 /\ m.fields[j].tag = 2 => m.fields[j].wire = 2
                 /\ m.fields[j].tag = 4 => m.fields[j].wire \in {0, 2}
        THEN [ok |-> TRUE, type |-> IF t = 0 THEN 0 ELSE m.fields[t].val,
              data |-> d # 0,
              len |-> IF d = 0 THEN 0 ELSE m.fields[d].to - m.fields[d].from]
        ELSE [ok |-> FALSE, type |-> 0, data |-> FALSE, len |-> 0]

\* Data::decode of src[from + 1 .. to]
UnixFsDecode(src, from, to) == UnixFsFields(PbFields(src, from + 1, to))

\* the ranges of the requests: those of the filter runs, and 0..50
\* (tests::unixfs_single_node)
HandlerRanges == Ranges \cup {Range(Included(0), Excluded(50))}

\* a forward that copies nothing
CopyNothing(src) == <<>>

\* Request::forward (io::copy of the input to the output): what it writes
forward(src) == src

\* a request for one of the streams: req.range().next() is a range, or None
\* (MockRequest, and RequestBody::range, give None or any range for `..`)
InitHandler ==
    /\ NoRun
    /\ lp = Off
    /\ pr = Off
    /\ \E s \in AllIds, rg \in HandlerRanges, rd \in BOOLEAN :
          /\ ~rd => rg = Range(Unbounded, Unbounded)
          /\ h = [on |-> TRUE, sid |-> s, ranged |-> rd, range |-> rg, stage |-> "start",
                  pos |-> 0, current |-> 0, out |-> <<>>, kept |-> {}]

\* read_header, b being what lp_read returned: [ok, pos, out]
HeaderRead(S, b) ==
    LET hd == DecodeHeader(SubSeq(S, b.from + 1, b.to))
    IN  IF b.st # "ok" \/ ~hd.ok \/ hd.roots = 0 \/ hd.version # 1
        THEN [ok |-> FALSE, pos |-> b.to, out |-> <<>>]
        ELSE [ok |-> TRUE, pos |-> b.to, out |-> lp_write(SubSeq(S, b.from + 1, b.to))]

read_header(S) == HeaderRead(S, lp_read(S, 0))

\* read_block, b being what lp_read returned: [st, codec, from, data, to]:
\* the frame is S[from + 1 .. to], its payload S[data + 1 .. to]; st is
\* "none" at the end of the input, at a frame cut short and at an empty frame
BlockRead(S, b) ==
    LET cid == CidReadBytes(SubSeq(S, b.from + 1, b.to))
    IN  [st |-> CASE b.st = "eof" -> "none"
                  [] b.st = "err" -> "err"
                  [] b.to = b.from -> "none"
                  [] ~cid.ok -> "err"
                  [] OTHER -> "ok",
         codec |-> cid.codec, from |-> b.from, data |-> b.from + cid.read, to |-> b.to]

read_block(S, pos) == BlockRead(S, lp_read(S, pos))

\* the handler fails: the Result is an Err
Failed(hh) == [hh EXCEPT !.stage = "err"]

\* lp_write of the block: the CID encoded anew, and the payload
Written(hh, S, blk) ==
    [hh EXCEPT !.out = @ \o lp_write(CidToBytes(SubSeq(S, blk.from + 1, blk.to))
                                     \o SubSeq(S, blk.data + 1, blk.to)),
               !.kept = @ \cup {hh.pos}, !.pos = blk.to]

\* a leaf of len bytes: skip = !range.contains(&current); current += len
Leaf(hh, S, blk, len) ==
    IF ~Contains(hh.range, hh.current)
    THEN [hh EXCEPT !.current = @ + len, !.pos = blk.to]
    ELSE [Written(hh, S, blk) EXCEPT !.current = @ + len]

\* the arm 0x70 of the match, inner being the UnixFS message decoded
UnixFsArm(hh, S, blk, outer, inner) ==
    \* DataType::try_from: Raw = 0 .. HamtShard = 5
    IF ~inner.ok \/ inner.type \notin 0..5 THEN Failed(hh)
    ELSE IF outer.links = 0 /\ inner.data THEN Leaf(hh, S, blk, inner.len)
    ELSE Written(hh, S, blk)

\* the arm 0x70 of the match, outer being the PbNode decoded
DagPbArm(hh, S, blk, outer) ==
    IF ~outer.ok \/ ~outer.data THEN Failed(hh)
    ELSE UnixFsArm(hh, S, blk, outer, UnixFsDecode(S, outer.from, outer.to))

\* one turn of the loop of nginx_handler, blk being what read_block returned
BlockArm(hh, S, blk) ==
    CASE blk.st = "none" -> [hh EXCEPT !.stage = "ok"]
      [] blk.st = "err" -> Failed(hh)
      [] blk.st = "ok" /\ blk.codec = DagPbCodec ->
            DagPbArm(hh, S, blk, PbNodeDecode(S, blk.data, blk.to))
      [] blk.st = "ok" /\ blk.codec = RawCodec -> Leaf(hh, S, blk, blk.to - blk.data)
      [] OTHER -> Written(hh, S, blk)

BlockStep(hh, S) == BlockArm(hh, S, read_block(S, hh.pos))

\* the header was read
HeaderStep(hh, hd) ==
    IF hd.ok
    THEN [hh EXCEPT !.out = hd.out, !.pos = hd.pos, !.kept = {0}, !.stage = "blocks"]
    ELSE Failed(hh)

\* no range: the input is forwarded
Forward ==
    /\ h.on /\ h.stage = "start" /\ ~h.ranged
    /\ h' = [h EXCEPT !.out = forward(Streams[h.sid]), !.pos = StreamLen[h.sid],
                      !.stage = "ok"]
    /\ UNCHANGED <<run, lp, pr>>

ReadHeader ==
    /\ h.on /\ h.stage = "start" /\ h.ranged
    /\ h' = HeaderStep(h, read_header(Streams[h.sid]))
    /\ UNCHANGED <<run, lp, pr>>

ReadBlock ==
    /\ h.on /\ h.stage = "blocks"
    /\ h' = BlockStep(h, Streams[h.sid])
    /\ UNCHANGED <<run, lp, pr>>

NextHandler == Forward \/ ReadHeader \/ ReadBlock

SpecHandler == InitHandler /\ [][NextHandler]_vars

(* ------------------------------------------------------------------ *)
(* parse_range (src/src/request.rs): the range of a request, read from *)
(* its query arguments.  A string is a sequence of characters.         *)
(* ------------------------------------------------------------------ *)

Digits == <<"0", "1", "2", "3", "4", "5", "6", "7", "8", "9">>
HexDigits == {Digits[i] : i \in 1..10}
               \cup {"a", "b", "c", "d", "e", "f", "A", "B", "C", "D", "E", "F"}

\* the index of the first c in s, 0 when there is none
RECURSIVE Find(_, _, _)
Find(s, c, i) ==
    IF i > Len(s) THEN 0 ELSE IF s[i] = c THEN i ELSE Find(s, c, i + 1)

\* str::split_once, [s] when c is not in s
SplitFirst(s, c, i) ==
    IF i = 0 THEN <<s>> ELSE <<SubSeq(s, 1, i - 1), SubSeq(s, i + 1, Len(s))>>

\* str::parse::<u64>: [ok, v] (a sign + may come first; a number of more
\* than 20 digits overflows; the numbers of the model have fewer than 10)
RECURSIVE DigitsValue(_, _)
DigitsValue(s, n) ==
    IF n = 0 THEN 0
    ELSE 10 * DigitsValue(s, n - 1) + (CHOOSE d \in 0..9 : Digits[d + 1] = s[n])

ParseDigits(s) ==
    IF s = <<>> \/ Len(s) > 20 \/ \E i \in 1..Len(s) : s[i] \notin {Digits[d] : d \in 1..10}
    THEN [ok |-> FALSE, v |-> 0]
    ELSE [ok |-> TRUE, v |-> DigitsValue(s, Len(s))]

ParseU64(s) == ParseDigits(IF s # <<>> /\ s[1] = "+" THEN Tail(s) ELSE s)

\* parse_bound: Option<Bound<u64>>
parse_bound(s) ==
    LET n == ParseU64(s)
    IN  IF s = <<"*">> THEN [some |-> TRUE, b |-> Unbounded]
        ELSE IF n.ok THEN [some |-> TRUE, b |-> Included(n.v)]
        ELSE [some |-> FALSE, b |-> Unbounded]

\* str::trim, of the blanks the model writes
RECURSIVE Trim(_)
Trim(s) ==
    IF s # <<>> /\ Head(s) = " " THEN Trim(Tail(s))
    ELSE IF s # <<>> /\ s[Len(s)] = " " THEN Trim(SubSeq(s, 1, Len(s) - 1))
    ELSE s

\* form_urlencoded::parse: the sequences between the separators &, the
\* empty ones left out, as they come
RECURSIVE Pieces(_)
PieceAnd(piece, rest) == IF piece = <<>> THEN rest ELSE <<piece>> \o rest

PiecesAt(s, i) ==
    IF i = 0 THEN PieceAnd(s, <<>>)
    ELSE PieceAnd(SubSeq(s, 1, i - 1), Pieces(SubSeq(s, i + 1, Len(s))))

Pieces(s) == IF s = <<>> THEN <<>> ELSE PiecesAt(s, Find(s, "&", 1))

\* form_urlencoded decodes a name or a value into a Cow: it is borrowed when
\* nothing was decoded, that is when s has no + and no % followed by two
\* hexadecimal digits
Borrowed(s) ==
    /\ \A i \in 1..Len(s) : s[i] # "+"
    /\ \A i \in 1..Len(s) :
          ~(s[i] = "%" /\ i + 2 <= Len(s) /\ s[i + 1] \in HexDigits /\ s[i + 2] \in HexDigits)

\* Option<(Bound<u64>, Bound<u64>)>
NoRange == [some |-> FALSE, lo |-> Unbounded, hi |-> Unbounded]

\* Some((parse_bound(iter.next()?)?, parse_bound(iter.next()?)?)), sides
\* being val.trim().splitn(2, ":")
BoundsOf(lo, hi) ==
    IF lo.some /\ hi.some THEN [some |-> TRUE, lo |-> lo.b, hi |-> hi.b] ELSE NoRange

RangeOfValue(val) ==
    LET sides == SplitFirst(val, ":", Find(val, ":", 1))
    IN  IF Len(sides) < 2 THEN NoRange
        ELSE BoundsOf(parse_bound(sides[1]), parse_bound(sides[2]))

\* the loop of parse_range over the pairs from pair i on: `while let
\* Some((Cow::Borrowed(key), Cow::Borrowed(val))) = it.next()`
RECURSIVE ScanPairs(_, _)
ScanPair(ps, i, kv) ==
    IF ~Borrowed(kv[1]) \/ (Len(kv) = 2 /\ ~Borrowed(kv[2])) THEN NoRange
    ELSE IF kv[1] = <<"b", "y", "t", "e", "s">>
    THEN RangeOfValue(Trim(IF Len(kv) = 2 THEN kv[2] ELSE <<>>))
    ELSE ScanPairs(ps, i + 1)

ScanPairs(ps, i) ==
    IF i > Len(ps) THEN NoRange
    ELSE ScanPair(ps, i, SplitFirst(ps[i], "=", Find(ps[i], "=", 1)))

parse_range(args) == ScanPairs(Pieces(args), 1)

\* The arguments of the requests.  A side of a range, as written: its text,
\* and what it stands for
Num(text, v) == [text |-> text, k |-> "I", v |-> v]
Sides ==
    {Num(<<"0">>, 0), Num(<<"1", "0", "0">>, 100), Num(<<"1", "0", "2", "4">>, 1024),
     [text |-> <<"*">>, k |-> "U", v |-> 0],
     [text |-> <<>>, k |-> "none", v |-> 0],
     [text |-> <<"a", "b">>, k |-> "none", v |-> 0],
     [text |-> <<"-", "1">>, k |-> "none", v |-> 0]}

\* the argument bytes=a:b of sides a and b, blanks around the value when pad
BytesArg(a, b, pad) ==
    [text |-> <<"b", "y", "t", "e", "s", "=">> \o (IF pad THEN <<" ">> ELSE <<>>)
              \o a.text \o <<":">> \o b.text \o (IF pad THEN <<" ">> ELSE <<>>),
     bytes |-> TRUE, lo |-> a, hi |-> b]

\* the argument bytes=a, which has one side
HalfArg(a) ==
    [text |-> <<"b", "y", "t", "e", "s", "=">> \o a.text, bytes |-> TRUE, lo |-> a,
     hi |-> [text |-> <<>>, k |-> "none", v |-> 0]]

\* another argument
OtherArg(text) ==
    [text |-> text, bytes |-> FALSE, lo |-> [text |-> <<>>, k |-> "none", v |-> 0],
     hi |-> [text |-> <<>>, k |-> "none", v |-> 0]]

BytesArgs ==
    {BytesArg(a, b, pad) : a \in Sides, b \in Sides, pad \in BOOLEAN}
       \cup {HalfArg(a) : a \in Sides}

OtherArgs ==
    {OtherArg(<<"x", "=", "1">>), OtherArg(<<"f", "l", "a", "g">>),
     OtherArg(<<"b", "y", "t", "e", "=", "0", ":", "1">>),
     OtherArg(<<"q", "=", "a", "+", "b">>), OtherArg(<<"q", "=", "a", "%", "2", "0", "b">>)}

\* the queries: one argument, or two
Queries ==
    {<<a>> : a \in BytesArgs \cup OtherArgs}
       \cup {<<a, b>> : a \in OtherArgs, b \in BytesArgs}
       \cup {<<b, a>> : a \in OtherArgs, b \in BytesArgs}

\* the arguments as the request carries them: joined by &
RECURSIVE QueryText(_)
QueryText(q) ==
    IF q = <<>> THEN <<>>
    ELSE IF Len(q) = 1 THEN q[1].text
    ELSE q[1].text \o <<"&">> \o QueryText(Tail(q))

InitRange ==
    /\ NoRun
    /\ lp = Off
    /\ h = Off
    /\ \E q \in Queries :
          pr = [on |-> TRUE, query |-> q, args |-> QueryText(q), done |-> FALSE,
                res |-> NoRange]

\* RequestBody::range calls parse_range on the arguments
ParseRange ==
    /\ pr.on /\ ~pr.done
    /\ pr' = [pr EXCEPT !.done = TRUE, !.res = parse_range(pr.args)]
    /\ UNCHANGED <<run, lp, h>>

SpecRange == InitRange /\ [][ParseRange]_vars

(* ------------------------------------------------------------------ *)
(* What the output holds                                               *)
(* ------------------------------------------------------------------ *)

\* the whole stream was handed in
AtEnd == cut = Len(Cuts[sid])

\* the output holds every byte of the stream interval [a, b) in one run
Covered(o, a, b) == \E i \in 1..Len(o) : o[i][1] <= a /\ b <= o[i][2]

\* the output holds some byte of the stream interval [a, b)
Touched(o, a, b) == \E i \in 1..Len(o) : o[i][1] < b /\ a < o[i][2]

\* the bytes of the output o of stream S
RECURSIVE OutBytes(_, _)
OutBytes(S, o) ==
    IF o = <<>> THEN <<>>
    ELSE SubSeq(S, o[1][1] + 1, o[1][2]) \o OutBytes(S, Tail(o))

\* the logical interval [a, b) holds an offset of the range r
Intersects(r, a, b) ==
    /\ a < b
    /\ CASE r.lo.k = "I" -> r.lo.v < b
         [] r.lo.k = "E" -> r.lo.v + 1 < b
         [] OTHER -> TRUE
    /\ CASE r.hi.k = "I" -> a <= r.hi.v
         [] r.hi.k = "E" -> a < r.hi.v
         [] OTHER -> TRUE

FramesOf(s, kind) == {i \in 1..Len(Layout[s]) : Layout[s][i].kind = kind}

\* the run of test_frame_loop that hands the stream s over in one chunk
OneChunkParts(res, em) == [out |-> em.out, crashed |-> res.crashed \/ em.crashed]

OneChunkOf(s, res) ==
    OneChunkParts(res, EmitParts(<<>>, res.ranges, 1, 0, StreamLen[s]))

OneChunk(s, r) == OneChunkOf(s, next(FramedNew, r, Streams[s], 0, StreamLen[s]))

\* the frame loop has consumed the whole stream without a panic
FramedRunOver == mode = "framed" /\ AtEnd /\ ~crashed

(* ------------------------------------------------------------------ *)
(* Claims                                                              *)
(* ------------------------------------------------------------------ *)

\* C1: when the frame loop has consumed the stream, a leaf frame is in the
\* output if and only if its logical span [p, p + len) intersects the range.
C1_LeafIffIntersects ==
    FramedRunOver =>
        \A i \in FramesOf(sid, "leaf") :
            LET fr == Layout[sid][i]
            IN  Covered(out, fr.from, fr.to)
                    <=> Intersects(range, fr.lfrom, fr.lfrom + fr.llen)

\* C2: the bytes the frame loop emits for a stream and a range are those it
\* emits when the stream is handed over in one chunk, whatever the chunking.
C2_ChunkingIndependent ==
    (FramedRunOver /\ ~OneChunk(sid, range).crashed) =>
        OutBytes(Streams[sid], out)
            = OutBytes(Streams[sid], OneChunk(sid, range).out)

\* C3: when the frame loop has consumed the stream, every dag-pb frame with
\* links is in the output in full, for every range and chunking.
C3_StructuralFramesWhole ==
    FramedRunOver =>
        \A i \in FramesOf(sid, "struct") :
            Covered(out, Layout[sid][i].from, Layout[sid][i].to)

\* C4: when the frame loop has consumed the stream, the CAR header frame is
\* in the output in full, for every range and chunking.
C4_HeaderWhole ==
    FramedRunOver =>
        \A i \in FramesOf(sid, "header") :
            Covered(out, Layout[sid][i].from, Layout[sid][i].to)

\* C5: when the frame loop has consumed the stream, every block frame is in
\* the output in full or not at all.
C5_FramesAtomic ==
    FramedRunOver =>
        \A i \in FramesOf(sid, "struct") \cup FramesOf(sid, "leaf") :
            LET fr == Layout[sid][i]
            IN  Covered(out, fr.from, fr.to) \/ ~Touched(out, fr.from, fr.to)

\* C6: with the range unbounded on both sides the filter does not panic and
\* its output, once the stream is consumed, is the stream byte for byte.
C6_FullRangeIdentity ==
    range = Range(Unbounded, Unbounded) =>
        /\ ~crashed
        /\ AtEnd => OutBytes(Streams[sid], out) = Streams[sid]

\* C7: once done is set, done stays set and every call of buffer returns a
\* null chain.
C7_DoneIsFinal == [][done = 1 => (done' = 1 /\ retNull')]_vars

\* a later call of buffer was made with done set, and returned null
C7_Witness == done = 1 /\ skipped /\ retNull /\ ~AtEnd

\* C8: after buffer has flagged a buffer as last it appends no non-empty
\* buffer any more and unixfs_read does not change.
C8_NothingAfterLast == ~late

\* the end bound of the range is met by the logical cursor x (the terms of C9)
EndBoundMet(r, x) ==
    \/ r.hi.k = "I" /\ r.hi.v = x
    \/ r.hi.k = "E" /\ r.hi.v - 1 = x

\* C9: after buffer has processed a chunk, if the end bound is met by the
\* logical cursor then done is set and the buffer of that chunk is flagged
\* last.
C9_EndBoundSetsDone ==
    (mode = "buffer" /\ cut > 1 /\ ~crashed /\ EndBoundMet(range, f.unixfs_read))
        => (done = 1 /\ lastFlagged)

\* a chunk was processed that brought the cursor to the end bound
C9_Witness ==
    /\ mode = "buffer" /\ cut > 1 /\ ~crashed /\ ~skipped
    /\ f.unixfs_read > 0
    /\ EndBoundMet(range, f.unixfs_read)
    /\ done = 1 /\ lastFlagged

\* C10: with an unbounded end bound buffer never sets done and never flags
\* a buffer as last.
C10_UnboundedNeverDone ==
    (mode = "buffer" /\ range.hi = Unbounded) => (done = 0 /\ ~flagged)

\* the logical cursor after the frames that end at or before stream offset x
\* were read, from frame i on with the cursor at c: the sum of the decoded
\* lengths of the leaves read; reading stops for good once the cursor is
\* beyond the end bound (the early return of Framed::next)
RECURSIVE CursorAfter(_, _, _, _, _)
CursorAfter(s, r, x, i, c) ==
    IF i > Len(Layout[s]) \/ gt_bound(r.hi, c) \/ Layout[s][i].to > x THEN c
    ELSE CursorAfter(s, r, x, i + 1, c + Layout[s][i].llen)

SingleBuffer == ~coarse /\ stride = 0 /\ AtEnd

\* a range ..E or 0..E with an exclusive end bound
UpToRange(r) == r.hi.k = "E" /\ (r.lo.k = "U" \/ r.lo = Included(0))

\* the frames of stream s other than the leaves that start at a logical
\* offset x with x + 1 >= E
FramesUpTo(s, E) ==
    {i \in 1..Len(Layout[s]) :
        Layout[s][i].kind = "leaf" => Layout[s][i].lfrom + 1 < E}

\* the output o holds the frames X of stream s in full and no byte of another
OutIs(s, o, X) ==
    \A i \in 1..Len(Layout[s]) :
        IF i \in X THEN Covered(o, Layout[s][i].from, Layout[s][i].to)
        ELSE ~Touched(o, Layout[s][i].from, Layout[s][i].to)

\* C12: for a range ..E, a stream handed over in a single buffer yields the
\* header, the structural frames and exactly the leaves that start at an
\* offset s with s + 1 < E, and buffer flags the buffer it returns last.
C12_ExclusiveEnd ==
    (UpToRange(range) /\ SingleBuffer /\ AtEnd /\ ~crashed) =>
        /\ OutIs(sid, out, FramesUpTo(sid, range.hi.v))
        /\ mode = "buffer" => lastFlagged

\* a range S.. with an unbounded end
FromRange(r) == r.lo.k = "I" /\ r.hi = Unbounded

\* the leaf frames of stream s whose logical span holds the offset x
LeavesAt(s, x) ==
    {i \in FramesOf(s, "leaf") :
        Layout[s][i].lfrom <= x /\ x < Layout[s][i].lfrom + Layout[s][i].llen}

\* a flat file: header, root, leaves
FlatFile(s) == \A i \in 1..Len(Layout[s]) : i > 2 <=> Layout[s][i].kind = "leaf"

\* C13: for a range S.. over a flat file delivered to buffer in two chunks, the
\* output is the header and the root followed by the tail of the stream that
\* starts with the leaf frame whose span holds S.
C13_TailFromStart ==
    (mode = "buffer" /\ FromRange(range) /\ FlatFile(sid) /\ AtEnd /\ fed = 2
     /\ ~crashed)
        => \A i \in LeavesAt(sid, range.lo.v) :
              OutBytes(Streams[sid], out)
                  = SubSeq(Streams[sid], 1, Layout[sid][2].to)
                    \o SubSeq(Streams[sid], Layout[sid][i].from + 1, StreamLen[sid])

\* the logical interval that ends at e lies before the start of the range r
BeforeStart(r, e) ==
    CASE r.lo.k = "I" -> e <= r.lo.v
      [] r.lo.k = "E" -> e <= r.lo.v + 1
      [] OTHER -> FALSE

\* every byte of the stream interval [a, b) belongs to a leaf frame whose
\* logical span lies before the start of the range
InSkippedLeaves(s, r, a, b) ==
    \A i \in 1..Len(Layout[s]) :
        (Layout[s][i].from < b /\ a < Layout[s][i].to)
            => /\ Layout[s][i].kind = "leaf"
               /\ BeforeStart(r, Layout[s][i].lfrom + Layout[s][i].llen)

\* C14: a call of buffer whose input lies wholly in leaf frames before the
\* range start returns a null chain and sets the input buffer empty, and the
\* parser goes on from there (the cursor counts the leaves read).
C14_SkippedChunkIsNull ==
    [][(mode = "buffer" /\ ~skipped' /\ ~crashed'
        /\ InSkippedLeaves(sid, range, off, Cuts[sid][cut']))
          => /\ retNull' /\ lastEmpty' /\ out' = out
             /\ f'.unixfs_read = CursorAfter(sid, range, Cuts[sid][cut'], 1, 0)]_vars

\* the logical length of the file of stream s
FileLen(s) == SumSeq([i \in 1..Len(Layout[s]) |-> Layout[s][i].llen])

\* the end bound of r is bounded and smaller than the length of the file
EndsInside(r, s) == r.hi.k \in {"I", "E"} /\ r.hi.v < FileLen(s)

\* C15: for a range that ends inside the file, done is set by the time all
\* the chunks have been handed to buffer, whatever the chunking.
C15_DoneBeforeExhausted ==
    (mode = "buffer" /\ EndsInside(range, sid) /\ AtEnd /\ ~crashed) => done = 1

\* the codec of the CID of block frame i of stream s, as Framed::decode_cid
\* reads it after the length prefix
FrameCodec(s, i) ==
    LET fr == Layout[s][i]
        S == Streams[s]
        pre == decode_var(SubSeq(S, fr.from + 1, Min(fr.from + 10, fr.to)))
    IN  CidReadBytes(SubSeq(S, fr.from + pre.read + 1,
                            Min(fr.from + pre.read + CidBatch, fr.to))).codec

\* the dag-pb frames of stream s
DagPbFrames(s) ==
    {i \in 1..Len(Layout[s]) :
        Layout[s][i].kind # "header" /\ FrameCodec(s, i) = DagPbCodec}

\* C16: when a call of Framed::next reads a dag-pb frame to its end that began
\* in an earlier chunk, the bytes of the frame that came in the earlier chunks
\* are in the output in full or not at all, and in full if the frame has links
\* (a call that returns at once, the cursor being beyond the end bound, reads
\* no frame).
C16_SplitFrameAtomic ==
    [][(mode = "framed" /\ ~crashed' /\ ~gt_bound(range.hi, f.unixfs_read))
         => \A i \in DagPbFrames(sid) :
              LET fr == Layout[sid][i]
              IN  (fr.from < off /\ off < fr.to /\ fr.to <= Cuts[sid][cut'])
                    => /\ Covered(out', fr.from, off) \/ ~Touched(out', fr.from, off)
                       /\ fr.kind = "struct" => Covered(out', fr.from, off)]_vars

\* the pairs Framed::next returns for one link of a chain, every one of them
\* taken from the chunk S[base+1..base+n]: c is [f, out, crashed]
ChainLink(c, base, n, res) ==
    LET em == EmitParts(c.out, res.ranges, 1, base, n)
    IN  [f |-> res.f, out |-> em.out, crashed |-> res.crashed \/ em.crashed]

\* ... for the links of a chain in turn: link i ends at stream offset ends[i]
RECURSIVE ChainParts(_, _, _, _, _, _)
ChainParts(c, r, S, from, ends, i) ==
    IF i > Len(ends) \/ c.crashed THEN c
    ELSE ChainParts(ChainLink(c, from, ends[i] - from,
                              next(c.f, r, S, from, ends[i] - from)),
                    r, S, ends[i], ends, i + 1)

\* the output after every pair that Framed::next returns for the chunks
\* between the boundaries cut and e was appended to the output o
AllParts(o, e) ==
    ChainParts([f |-> f, out |-> o, crashed |-> FALSE], range, Streams[sid], off,
               <<Cuts[sid][e]>>, 1)

\* C17: a call of buffer on a chain of one chunk appends to the output exactly the bytes
\* chunk[start..end] of all the pairs (start, end) that Framed::next returned
\* for the chunk, in order.
C17_BufferEmitsAllParts ==
    [][(mode = "buffer" /\ ~skipped' /\ ~crashed' /\ fed' = fed + 1)
         => LET all == AllParts(out, cut')
            IN  ~all.crashed => out' = all.out]_vars

\* C18: a length prefix still without its last byte when the scratch buffer
\* holds more bytes than it was allocated for has made the filter fail: no
\* state of a run that goes on has such a scratch buffer.
C18_LongPrefixIsFatal ==
    (f.state # "Cid" /\ Len(f.buf) > ScratchCap) => crashed

\* the parser gets to frame i of stream s: the logical cursor at its start is
\* not beyond the end bound
Reached(s, r, i) == ~gt_bound(r.hi, Layout[s][i].lfrom)

\* the parser is at the length prefix of a block frame, nothing held back
AtFrameStart(fr) == fr.state = "Block" /\ fr.len = 0 /\ fr.buf = <<>>

\* C19: when the frame loop has consumed a stream with a block whose CID
\* cannot be decoded, it has not panicked, the frame of that block is in the
\* output in full whatever the range, the cursor counts the leaves only, and
\* the parser is at the start of the frame after the last one.
C19_BadCidKept ==
    (mode = "framed" /\ AtEnd) =>
        \A i \in FramesOf(sid, "badcid") :
            Reached(sid, range, i) =>
                /\ ~crashed
                /\ Covered(out, Layout[sid][i].from, Layout[sid][i].to)
                /\ f.unixfs_read = CursorAfter(sid, range, off, 1, 0)
                /\ AtFrameStart(f)

\* C20: when the frame loop has consumed a stream with a block of a codec that
\* is neither raw nor dag-pb, it has not panicked, the frame of that block is
\* in the output in full, the cursor counts the leaves only, and the frames
\* after it were read.
C20_OtherCodecKept ==
    (mode = "framed" /\ AtEnd) =>
        \A i \in FramesOf(sid, "other") :
            Reached(sid, range, i) =>
                /\ ~crashed
                /\ Covered(out, Layout[sid][i].from, Layout[sid][i].to)
                /\ f.unixfs_read = CursorAfter(sid, range, off, 1, 0)

\* C21: when the frame loop has consumed a stream with a dag-pb block whose
\* payload does not decode (a field of an unknown tag), it has not panicked,
\* the frame of that block is in the output in full, and the frames after it
\* were read.
C21_BadPayloadKept ==
    (mode = "framed" /\ AtEnd) =>
        \A i \in FramesOf(sid, "badpb") :
            Reached(sid, range, i) =>
                /\ ~crashed
                /\ Covered(out, Layout[sid][i].from, Layout[sid][i].to)
                /\ f.unixfs_read = CursorAfter(sid, range, off, 1, 0)
                /\ AtFrameStart(f)

\* C22: of a stream whose CAR header is not of version 1 the filter writes no
\* byte to the output.
C22_BadHeaderStops ==
    FramesOf(sid, "badheader") # {} => out = <<>>

\* the frames of stream s that the input handed in so far, the stream up to
\* offset x, ends in the middle of
Unterminated(s, x) ==
    {i \in 1..Len(Layout[s]) : Layout[s][i].from < x /\ x < Layout[s][i].to}

\* C23: if the input ends here, in the middle of a frame, the output holds no
\* byte of that frame.
C23_PartialFrameWithheld ==
    ~crashed =>
        \A i \in Unterminated(sid, off) :
            ~Touched(out, Layout[sid][i].from, Layout[sid][i].to)

\* C24: the filter is seeking exactly when the start of the range is
\* Included(s) and the logical cursor is below s.
C24_SeekBelowStart ==
    is_seek(f, range) <=> (range.lo.k = "I" /\ f.unixfs_read < range.lo.v)

\* C25: a call of decode_len that has not seen the last byte of the length
\* returns None and leaves the bytes seen so far in the scratch buffer; the
\* call that sees it returns the value decode_var gives on the unsplit bytes
\* and the number of bytes it took from its own chunk, and leaves the scratch
\* buffer empty.
C25_SplitLengthDecodes ==
    (lp.on /\ lp.calls > 0) =>
        IF lp.ok
        THEN /\ decode_var(lp.src).ok
             /\ lp.size = decode_var(lp.src).size
             /\ lp.read = decode_var(lp.src).read - lp.prev
             /\ lp.buf = <<>>
        ELSE /\ lp.buf = SubSeq(lp.src, 1, lp.at)
             /\ lp.at < decode_var(lp.src).read

\* a length of three bytes or more was decoded by the third call or a later
\* one, in a chunk that holds more than the rest of the length
C25_Witness ==
    /\ lp.on /\ lp.ok /\ lp.calls >= 3
    /\ lp.size >= MSB * MSB
    /\ lp.prev > 0 /\ lp.at < Len(lp.src)

\* the dag-pb leaves of stream s
PbLeaves(s) == DagPbFrames(s) \cap FramesOf(s, "leaf")

\* C26: when the frame loop has consumed the stream, the cursor is the sum of
\* the lengths of the inline UnixFS Data fields of the leaves read, and every
\* dag-pb leaf is in the output in full if its span [p, p + len), len the
\* length of its Data field, intersects the range, and not at all if not.
C26_PbLeafAsUnit ==
    (FramedRunOver /\ PbLeaves(sid) # {}) =>
        /\ f.unixfs_read = CursorAfter(sid, range, off, 1, 0)
        /\ \A i \in PbLeaves(sid) :
              LET fr == Layout[sid][i]
              IN  IF Intersects(range, fr.lfrom, fr.lfrom + fr.llen)
                  THEN Covered(out, fr.from, fr.to)
                  ELSE ~Touched(out, fr.from, fr.to)

\* the handler has served the request and returned Ok
HandlerOk == h.on /\ h.stage = "ok"

\* C27: nginx_handler writes a leaf block exactly when its span [current,
\* current + len) intersects the requested range, a leaf that straddles the
\* start of the range included; and when the range covers the only leaf of
\* the file, the output equals the input.
C27_HandlerLeafIffIntersects ==
    (HandlerOk /\ h.ranged) =>
        /\ \A i \in FramesOf(h.sid, "leaf") :
              LET fr == Layout[h.sid][i]
              IN  fr.from \in h.kept <=> Intersects(h.range, fr.lfrom, fr.lfrom + fr.llen)
        /\ (Cardinality(FramesOf(h.sid, "leaf")) = 1
            /\ Contains(h.range, 0) /\ Contains(h.range, FileLen(h.sid) - 1))
              => h.out = Streams[h.sid]

\* C28: without a range nginx_handler forwards the input to the output byte
\* for byte and parses nothing of it: a CAR with dag-cbor blocks, or a stream
\* that is no CAR, comes out as it went in.
C28_NoRangeForwards ==
    (h.on /\ ~h.ranged /\ h.stage # "start") =>
        /\ h.stage = "ok"
        /\ h.out = Streams[h.sid]
        /\ h.current = 0

\* a CAR with a dag-cbor block was forwarded
C28_Witness ==
    /\ h.on /\ ~h.ranged /\ h.stage = "ok"
    /\ FramesOf(h.sid, "other") # {}
    /\ h.out = Streams[h.sid]

\* the cursor of parser fr is past the upper bound of range r: above its
\* last offset
Passed(fr, r) == r.hi.k # "U" /\ fr.unixfs_read > r.hi.v

\* the frames of stream s that lie after the leaf that takes the cursor past
\* the upper bound of r
FramesPast(s, r) == {j \in 1..Len(Layout[s]) : r.hi.k # "U" /\ Layout[s][j].lfrom > r.hi.v}

Asked(q) ==
    LET at == {i \in 1..Len(q) : q[i].bytes}
    IN  IF at = {} THEN NoRange
        ELSE LET a == q[CHOOSE i \in at : \A j \in at : i <= j]
             IN  IF a.lo.k \in {"I", "U"} /\ a.hi.k \in {"I", "U"}
                 THEN [some |-> TRUE,
                       lo |-> IF a.lo.k = "I" THEN Included(a.lo.v) ELSE Unbounded,
                       hi |-> IF a.hi.k = "I" THEN Included(a.hi.v) ELSE Unbounded]
                 ELSE NoRange

\* C30: parse_range maps the query argument bytes=a:b to (Included(a),
\* Included(b)), a side written * to Unbounded, and returns None when the
\* query has no argument bytes or a side of it is missing or is not a number.
C30_ParseRange == (pr.on /\ pr.done) => pr.res = Asked(pr.query)

\* C31: whenever a call of buffer sets done, the chain it returns is not null
\* and holds the buffer that was flagged last: done is never set on a call
\* whose flagged buffer is emptied and left out of the chain.
C31_DoneWithFlaggedBuffer ==
    [][(mode = "buffer" /\ done = 0 /\ done' = 1 /\ ~crashed') =>
          (~retNull' /\ ~(lastFlagged' /\ lastEmpty'))]_vars

\* the next chunk handed over goes through Framed::next: no panic so far, and
\* buffer has not set done
CallsNext == ~crashed /\ (mode = "framed" \/ done = 0)

\* the chunks that may be handed over next in the current run
EndsNow == IF coarse THEN CoarseEnds(sid, cut) ELSE NextEnds(sid, cut, stride)

\* the pairs of a list lie in a chunk of n bytes, in ascending order, and no
\* two of them share a byte
PairsIn(parts, n) ==
    /\ \A i \in 1..Len(parts) :
          0 <= parts[i][1] /\ parts[i][1] <= parts[i][2] /\ parts[i][2] <= n
    /\ \A i \in 1..Len(parts) : \A j \in 1..Len(parts) :
          i < j => parts[i][2] <= parts[j][1]

PartsOf(e) == next(f, range, Streams[sid], off, Cuts[sid][e] - off)

\* C32: every list of (start, end) pairs Framed::next returns for a chunk of
\* n bytes has 0 <= start <= end <= n in each pair, the pairs ascending and
\* pairwise disjoint, for every stream, range and parser state carried in.
C32_PairsWithinChunk ==
    CallsNext =>
        \A e \in EndsNow :
            ~PartsOf(e).crashed =>
                PairsIn(PartsOf(e).ranges, Cuts[sid][e] - off)

\* C33: in every reachable state blk_pos <= blk_len, for every chunking,
\* a protobuf key or length varint split over three or more chunks included,
\* so that blk_len - blk_pos never underflows.
C33_BlkPosWithinBlock == ~crashed => f.blk_pos <= f.blk_len

\* the block frames of stream s whose last byte is the byte before offset x
FramesEndingAt(s, x) ==
    {i \in 1..Len(Layout[s]) : Layout[s][i].kind # "header" /\ Layout[s][i].to = x}

\* C34: whenever the parser has consumed exactly the last byte of a block
\* frame it is in state Block with len = 0 and blk_pos = 0, so that the next
\* byte is decoded as a frame length prefix, for every chunking.
C34_FrameEndResets ==
    (mode = "framed" /\ ~crashed) =>
        \A i \in FramesEndingAt(sid, off) :
            Reached(sid, range, i) =>
                (f.state = "Block" /\ f.len = 0 /\ f.blk_pos = 0)

\* the frame length block frame i of stream s declares in its length prefix
FrameLen(s, i) ==
    decode_var(SubSeq(Streams[s], Layout[s][i].from + 1,
                      Min(Layout[s][i].from + VarintMax, Layout[s][i].to))).size

\* the block frames of stream s that declare a length below SmallBlock
SmallFrames(s) ==
    {i \in 1..Len(Layout[s]) :
        Layout[s][i].kind # "header" /\ FrameLen(s, i) < SmallBlock}

\* C35: a block whose declared frame length is below 1000 bytes is in the
\* output in full (length prefix, CID and payload), whatever the range.
C35_SmallBlockKept ==
    (mode = "framed" /\ AtEnd /\ ~crashed) =>
        \A i \in SmallFrames(sid) :
            Reached(sid, range, i) =>
                Covered(out, Layout[sid][i].from, Layout[sid][i].to)

\* the context and the chain after buffer is called, in the current state,
\* on a chain of one empty buffer (tests::test_buf_filter_chain_empty)
EmptyChunk ==
    IF BufferDone(done)
    THEN [f |-> f, done |-> done, out |-> out, crashed |-> FALSE, null |-> TRUE]
    ELSE BufferLinks([f |-> f, done |-> done, out |-> out,
                      crashed |-> FALSE, null |-> TRUE, flagged |-> flagged,
                      lastFlagged |-> lastFlagged, lastEmpty |-> lastEmpty,
                      late |-> late],
                     range, Streams[sid], off, <<off>>, 1)

\* C36: feeding an empty chunk produces no output (buffer returns a null
\* chain) and leaves the whole context unchanged: the parser state, len,
\* blk_len, blk_pos, unixfs_read, unixfs_len, has_links, the scratch buffer
\* and done.
C36_EmptyChunkNoEffect ==
    (mode = "buffer" /\ ~crashed) =>
        /\ ~EmptyChunk.crashed
        /\ EmptyChunk.null
        /\ EmptyChunk.out = out
        /\ EmptyChunk.f = f
        /\ EmptyChunk.done = done

\* the loop of Framed::next is over: the chunk is consumed, the call has
\* returned early or it has panicked
LoopOver(L, n) == L.cur >= n \/ L.crashed \/ L.ret

\* every turn of the loop from L on, at most k of them, ends the loop or
\* consumes at least one byte of the chunk and no more than the chunk holds,
\* and the loop is over after them
RECURSIVE Advances(_, _, _, _, _, _)
RECURSIVE Advanced(_, _, _, _, _, _, _)
Advances(L, r, S, base, n, k) ==
    IF LoopOver(L, n) THEN TRUE
    ELSE IF k = 0 THEN FALSE
    ELSE Advanced(L, NextStep(L, r, S, base, n), r, S, base, n, k)

Advanced(L, M, r, S, base, n, k) ==
    /\ M.ret \/ M.crashed \/ (M.cur > L.cur /\ M.cur <= n)
    /\ Advances(M, r, S, base, n, k - 1)

\* C37: every call Framed::next(chunk) terminates, from every reachable
\* parser state: each turn of the main loop consumes at least one byte of the
\* chunk or returns, so a chunk of n bytes is done with after n turns at most.
C37_NextTerminates ==
    CallsNext =>
        \A e \in EndsNow :
            Advances([f |-> f, ranges |-> <<>>, start |-> 0, pos |-> 0,
                      maybe |-> 0, cur |-> 0, ret |-> FALSE, crashed |-> FALSE],
                     range, Streams[sid], off, Cuts[sid][e] - off,
                     Cuts[sid][e] - off)

\* a whole stream went through one call of Framed::next, turn after turn up
\* to the end of its last leaf
C37_Witness ==
    /\ mode = "framed" /\ stride = 0 /\ ~coarse /\ AtEnd /\ ~crashed
    /\ f.state = "Block" /\ f.unixfs_read > 0

\* what decode_cid returns, in the current state, for the chunk that ends at
\* chunk boundary e
CidOf(e) == decode_cid(f.buf, Len(f.buf), Streams[sid], off, Cuts[sid][e], 0)

\* decode_cid has lost no byte of the chunk that ends at boundary e: on None
\* the scratch buffer is what it was plus the whole chunk; on success it is
\* empty and the bytes reported as read are the bytes of the CID (pos of
\* them) that were not carried over from earlier chunks
CidKeepsBytes(d, e) ==
    IF d.ok
    THEN d.buf = <<>> /\ d.read = d.pos - Len(f.buf) /\ d.read >= 1
         /\ d.read <= Cuts[sid][e] - off
    ELSE d.buf = f.buf \o SubSeq(Streams[sid], off + 1, Cuts[sid][e])

\* C38: decode_cid loses no input byte: when it returns None every byte of
\* the remaining chunk has been appended to the scratch buffer, for every
\* remaining length, and when it succeeds the bytes it reports as consumed
\* are the CID's encoded length minus the bytes carried over, the scratch
\* buffer being empty afterwards.
C38_CidLosesNoByte ==
    (CallsNext /\ f.state = "Cid") =>
        \A e \in (cut + 1)..Len(Cuts[sid]) : CidKeepsBytes(CidOf(e), e)

\* the output of the streaming filter for the request the handler served,
\* the input going through Framed::next in one chunk
Streamed == OneChunk(h.sid, h.range)

\* C39: for the same CAR of raw and dag-pb UnixFS blocks and the same range,
\* the concatenated output of the streaming filter (Framed::next over a
\* chunking of the input) equals the output of the whole-block filter
\* nginx_handler.
C39_FilterRefinesHandler ==
    (HandlerOk /\ h.ranged /\ h.sid \in StreamIds) =>
        /\ ~Streamed.crashed
        /\ OutBytes(Streams[h.sid], Streamed.out) = h.out

====
